---- MODULE Spec2Model ----
(***************************************************************************)
(* The generic best-first search engine of src/a_star.rs: solve over a     *)
(* state type S implementing the State trait, the Candidate queue entry    *)
(* and its reversed ordering, and the Tracking<S> wrapper that records the *)
(* path.  The state graph searched (successors, heuristic, completion      *)
(* predicate) is the input; it is drawn from a bounded family.             *)
(* Then the puzzles with a search or a reduction of their own: the         *)
(* amphipod burrow of src/bin/day23.rs and the snailfish numbers of        *)
(* src/bin/day18.rs and src/bin/day18_flat.rs.                             *)
(***************************************************************************)
EXTENDS Integers, Sequences, FiniteSets, Bags, TLC

\* ------------------------------------------------------------------ bounds
MaxEdgeCost == 1
MaxHeuristic == 1

\* The states of S: the four states of a diamond with a tail, 0 the initial
\* state.
Nodes == 0 .. 3

\* The edges a graph of the family may hold, in the order successors() yields
\* them: the diamond 0 -> 1 -> 2, 0 -> 2, the tail 2 -> 3, the back edge
\* 2 -> 1 and the self-loop 1 -> 1.
EdgeSlots ==
    << <<0, 1>>, <<0, 2>>, <<1, 2>>, <<2, 3>>, <<2, 1>>, <<1, 1>> >>

\* Of the back edge and the self-loop a graph holds at most one.
ExtraSlots == {5, 6}

\* ------------------------------------------------------------------- state
VARIABLES
    succ,           \* State::successors of S: state -> sequence of <<next, cost>>
    h,              \* State::min_remaining_cost of S
    h2,             \* State::min_remaining_cost of a second implementation S2
    goal,           \* State::is_complete of S: the set of complete states
    initial_state,  \* the argument of solve
    plain,          \* the locals of solve::<S>
    second,         \* the locals of a later call solve::<S2>
    tracked,        \* the locals of solve::<Tracking<S>>
    burrow,         \* day23: the candidate at hand and its successors
    homework,       \* day18, day18_flat: a number, as a tree and as tokens
    cavern,         \* day15: the risk map and the locals of the search
    seafloor,       \* day25, day25_2: the cucumbers, as a map and as a grid
    torus           \* position: a TorusMap under the calls of its methods

vars ==
    <<succ, h, h2, goal, initial_state, plain, second, tracked, burrow,
      homework, cavern, seafloor, torus>>
\* The puzzle binaries, which the calls of solve leave alone.
grids == <<cavern, seafloor, torus>>
puzzles == <<burrow, homework, grids>>
graph == <<succ, h, h2, goal, initial_state>>

\* Option<(S, usize)>
None == <<>>
Some(state, cost) == <<state, cost>>

\* --------------------------------------------------- impl State for S / S2
MinRemainingCost(s) == h[s]
Successors(s) == succ[s]
IsComplete(s) == s \in goal

\* ------------------------------------------------------------- Tracking<S>
TrackingNew(state) == [state |-> state, history |-> <<>>]

\* (a derived PartialEq would compare the history too)
TrackingEqWithHistory(self, other) ==
    self.state = other.state /\ self.history = other.history

TrackingEq(self, other) == self.state = other.state

\* (history.push((state.clone(), cost)): the entry holds the new state)
TrackingSuccessorRecordsNext(self, state, cost) ==
    << [state |-> state,
        history |-> Append(self.history, <<state, cost>>)],
       cost >>

TrackingSuccessor(self, state, cost) ==
    << [state |-> state,
        history |-> Append(self.history, <<self.state, cost>>)],
       cost >>

TrackingMinRemainingCost(self) == MinRemainingCost(self.state)

TrackingIsComplete(self) == IsComplete(self.state)

TrackingSuccessors(self) ==
    [k \in 1 .. Len(Successors(self.state)) |->
        TrackingSuccessor(self, Successors(self.state)[k][1],
                                Successors(self.state)[k][2])]

\* ------------------------------------------ the State trait, by state type
\* T names the type solve is instantiated with: "S", "S2" or "Tracking".
StateMinRemainingCost(T, s) ==
    CASE T = "S" -> MinRemainingCost(s)
      [] T = "S2" -> h2[s]
      [] T = "Tracking" -> TrackingMinRemainingCost(s)

StateSuccessors(T, s) ==
    IF T = "Tracking" THEN TrackingSuccessors(s) ELSE Successors(s)

StateIsComplete(T, s) ==
    IF T = "Tracking" THEN TrackingIsComplete(s) ELSE IsComplete(s)

StateEq(T, a, b) ==
    IF T = "Tracking" THEN TrackingEq(a, b) ELSE a = b

\* HashSet<S>::contains and ::insert, through the type's Eq
Contains(T, visited, s) == \E v \in visited : StateEq(T, v, s)

Insert(T, visited, s) ==
    IF Contains(T, visited, s) THEN visited ELSE visited \cup {s}

\* --------------------------------------------------------------- Candidate
\* (the heuristic added to the cost the candidate stores)
CandidateNewCostWithHeuristic(T, state, cost) ==
    [state |-> state, cost |-> cost + StateMinRemainingCost(T, state),
     min_remaining_cost |-> StateMinRemainingCost(T, state)]

CandidateNew(T, state, cost) ==
    [state |-> state, cost |-> cost,
     min_remaining_cost |-> StateMinRemainingCost(T, state)]

\* (Self::new(state, cost): the cost of the edge alone)
CandidateSuccessorsEdgeCost(T, self) ==
    [k \in 1 .. Len(StateSuccessors(T, self.state)) |->
        CandidateNew(T, StateSuccessors(T, self.state)[k][1],
                        StateSuccessors(T, self.state)[k][2])]

CandidateSuccessors(T, self) ==
    [k \in 1 .. Len(StateSuccessors(T, self.state)) |->
        CandidateNew(T, StateSuccessors(T, self.state)[k][1],
                        self.cost + StateSuccessors(T, self.state)[k][2])]

\* (the comparison of the keys not reversed: the heap gives the greatest key)
CandidateCmpUnreversed(self, other) ==
    LET a == self.cost + self.min_remaining_cost
        b == other.cost + other.min_remaining_cost
    IN  IF a < b THEN -1 ELSE IF a > b THEN 1 ELSE 0

\* Ord for Candidate: -1 Less, 0 Equal, 1 Greater; the comparison of the keys
\* reversed.
CandidateCmp(self, other) ==
    LET a == self.cost + self.min_remaining_cost
        b == other.cost + other.min_remaining_cost
    IN  IF a < b THEN 1 ELSE IF a > b THEN -1 ELSE 0

\* ------------------------------------------------------------- BinaryHeap
\* The heap is kept as the sequence of its entries in insertion order.
HeapPush(heap, c) == Append(heap, c)

\* pop returns a greatest entry; which one among equal entries is not
\* specified: every index of a greatest entry is a choice.
HeapPopChoices(heap) ==
    {i \in 1 .. Len(heap) :
        \A j \in 1 .. Len(heap) : CandidateCmp(heap[i], heap[j]) >= 0}

\* (heap.peek(): the entry stays on the heap)
HeapPeek(heap, i) == heap

HeapRemove(heap, i) ==
    [k \in 1 .. (Len(heap) - 1) |-> IF k < i THEN heap[k] ELSE heap[k + 1]]

\* ------------------------------------------------------------------- solve
\* (every successor pushed: the visited.contains test left out)
RECURSIVE PushSuccessorsUnfiltered(_, _, _, _)
PushSuccessorsUnfiltered(T, heap, visited, cands) ==
    IF cands = <<>> THEN heap
    ELSE PushSuccessorsUnfiltered(T, HeapPush(heap, Head(cands)),
                                  visited, Tail(cands))

\* for next_candidate in candidate.successors() { if !visited.contains(..) push }
RECURSIVE PushSuccessors(_, _, _, _)
PushSuccessors(T, heap, visited, cands) ==
    IF cands = <<>> THEN heap
    ELSE PushSuccessors(T,
            IF ~Contains(T, visited, Head(cands).state)
                THEN HeapPush(heap, Head(cands)) ELSE heap,
            visited, Tail(cands))

\* The locals of one call of solve: the heap, the visited set, the candidate
\* the last pop gave (none before the first pop) and the value returned.
\* expansions counts, per inner state, the calls of candidate.successors().
SolveStart(T, state) ==
    [pc |-> "loop",
     heap |-> HeapPush(<<>>, CandidateNew(T, state, 0)),
     visited |-> {},
     candidate |-> <<>>,
     result |-> None,
     expansions |-> [n \in Nodes |-> 0]]

\* A puzzle binary that was not started.
NotStarted == [pc |-> "idle"]

NoGrids ==
    cavern = NotStarted /\ seafloor = NotStarted /\ torus = NotStarted

NotCalled ==
    [pc |-> "idle", heap |-> <<>>, visited |-> {}, candidate |-> <<>>,
     result |-> None, expansions |-> [n \in Nodes |-> 0]]

Inner(T, s) == IF T = "Tracking" THEN s.state ELSE s

\* (the check left out)
AlreadyVisitedNever(T, visited, candidate) == FALSE

\* if visited.contains(&candidate.state) { continue; }
AlreadyVisited(T, visited, candidate) == Contains(T, visited, candidate.state)

\* (visited.insert placed before the is_complete check)
OnCompleteVisiting(T, r, candidate, rest) ==
    [r EXCEPT !.pc = "returned", !.heap = rest,
              !.visited = Insert(T, r.visited, candidate.state),
              !.candidate = <<candidate>>,
              !.result = Some(candidate.state, candidate.cost)]

\* (the priority key returned in place of the cost)
OnCompleteReturnsKey(T, r, candidate, rest) ==
    [r EXCEPT !.pc = "returned", !.heap = rest,
              !.candidate = <<candidate>>,
              !.result = Some(candidate.state,
                              candidate.cost + candidate.min_remaining_cost)]

\* if candidate.state.is_complete() { return Some(..); }
OnComplete(T, r, candidate, rest) ==
    [r EXCEPT !.pc = "returned", !.heap = rest,
              !.candidate = <<candidate>>,
              !.result = Some(candidate.state, candidate.cost)]

\* (break in place of continue: the loop ends and solve returns None)
OnStaleBreak(T, r, candidate, rest) ==
    [r EXCEPT !.pc = "returned", !.heap = rest,
              !.candidate = <<candidate>>, !.result = None]

\* (the visited test made after the successors are pushed)
OnStaleRepush(T, r, candidate, rest) ==
    [r EXCEPT !.heap = PushSuccessors(T, rest, r.visited,
                            CandidateSuccessors(T, candidate)),
              !.candidate = <<candidate>>]

\* if visited.contains(&candidate.state) { continue; }
OnStale(T, r, candidate, rest) ==
    [r EXCEPT !.heap = rest, !.candidate = <<candidate>>]

\* visited.insert(candidate.state.clone()); for next_candidate in ... { }
OnExpand(T, r, candidate, rest) ==
    LET visited == Insert(T, r.visited, candidate.state)
    IN  [r EXCEPT
            !.heap = PushSuccessors(T, rest, visited,
                        CandidateSuccessors(T, candidate)),
            !.visited = visited,
            !.candidate = <<candidate>>,
            !.expansions[Inner(T, candidate.state)] = @ + 1]

\* One iteration of `while let Some(candidate) = heap.pop()`, popping the
\* entry at index i (i is not read when the heap is empty).
LoopIteration(T, r, i) ==
    IF r.heap = <<>>
    THEN [r EXCEPT !.pc = "returned", !.candidate = <<>>, !.result = None]
    ELSE LET candidate == r.heap[i]
             rest == HeapRemove(r.heap, i)
         IN  IF StateIsComplete(T, candidate.state)
                THEN OnComplete(T, r, candidate, rest)
             ELSE IF AlreadyVisited(T, r.visited, candidate)
                THEN OnStale(T, r, candidate, rest)
             ELSE OnExpand(T, r, candidate, rest)

\* Which branch the iteration popping index i takes.
Branch(T, r, i) ==
    IF r.heap = <<>> THEN "exhausted"
    ELSE IF StateIsComplete(T, r.heap[i].state) THEN "complete"
    ELSE IF AlreadyVisited(T, r.visited, r.heap[i]) THEN "stale"
    ELSE "expand"

\* The entries heap.pop() may give; 0 stands for "the heap is empty".
PopIndexes(r) ==
    IF r.heap = <<>> THEN {0} ELSE HeapPopChoices(r.heap)

\* ---------------------------------------------- the graph, for the claims
\* A cost no path of the family reaches: "no completion state is reachable".
Infinity == Cardinality(Nodes) * MaxEdgeCost + MaxHeuristic + 1

Min(S) == CHOOSE x \in S : \A y \in S : x <= y

\* The greatest of a set of naturals, 0 for the empty set.
Max0(S) == IF S = {} THEN 0 ELSE CHOOSE x \in S : \A y \in S : y <= x

Range(f) == {f[k] : k \in DOMAIN f}

\* The least cost of a chain of at most k successors from s to a complete
\* state.
RECURSIVE RemainingWithin(_, _)
RemainingWithin(s, k) ==
    IF s \in goal THEN 0
    ELSE IF k = 0 THEN Infinity
    ELSE Min({Infinity} \cup
             {e[2] + RemainingWithin(e[1], k - 1) : e \in Range(succ[s])})

TrueRemainingCost(s) == RemainingWithin(s, Cardinality(Nodes) - 1)

OptimalCost == TrueRemainingCost(initial_state)

GoalReachable == OptimalCost < Infinity

\* min_remaining_cost never exceeds the true remaining cost.
AdmissibleFor(hh) ==
    \A s \in Nodes :
        TrueRemainingCost(s) < Infinity => hh[s] <= TrueRemainingCost(s)

Admissible == AdmissibleFor(h)

\* The states a chain of successors reaches from the initial state, a
\* complete state ending the chain.
RECURSIVE Closure(_, _)
Closure(seen, k) ==
    IF k = 0 THEN seen
    ELSE Closure(seen \cup
                    {e[1] : e \in UNION {Range(succ[s]) : s \in seen \ goal}},
                 k - 1)

Reachable == Closure({initial_state}, Cardinality(Nodes) - 1)

RECURSIVE SumOver(_, _)
SumOver(f, S) ==
    IF S = {} THEN 0
    ELSE LET x == CHOOSE x \in S : TRUE IN f[x] + SumOver(f, S \ {x})

\* ------------------------------------------------------------------- inputs
SuccOf(w) ==
    [s \in Nodes |->
        LET mine == SelectSeq([k \in 1 .. Len(EdgeSlots) |-> k],
                        LAMBDA k : EdgeSlots[k][1] = s /\ w[k] >= 0)
        IN  [k \in 1 .. Len(mine) |-> <<EdgeSlots[mine[k]][2], w[mine[k]]>>]]

\* The inputs: a graph over EdgeSlots with costs up to MaxEdgeCost (-1: the
\* edge is absent), a heuristic up to MaxHeuristic and a set of complete
\* states.  The initial candidate is alone on the heap when it is popped, so
\* its heuristic is compared with nothing: it is 0.  A complete initial state
\* ends the search at once, whatever else is complete: it is then the only
\* complete state.
InitGraph ==
    /\ \E w \in [1 .. Len(EdgeSlots) -> -1 .. MaxEdgeCost] :
        /\ \E k \in ExtraSlots : w[k] < 0
        /\ succ = SuccOf(w)
    /\ h \in {f \in [Nodes -> 0 .. MaxHeuristic] : f[0] = 0}
    /\ goal \in {{0}} \cup SUBSET (Nodes \ {0})
    /\ initial_state = 0

\* ------------------------------------------------- Spec: one call solve(s)
Init ==
    /\ InitGraph
    /\ h2 = h
    /\ burrow = NotStarted
    /\ homework = NotStarted
    /\ NoGrids
    /\ plain = SolveStart("S", initial_state)
    /\ second = NotCalled
    /\ tracked = NotCalled

\* heap.pop() gave a candidate whose state is complete: return Some.
Complete ==
    /\ plain.pc = "loop"
    /\ \E i \in PopIndexes(plain) :
        /\ Branch("S", plain, i) = "complete"
        /\ plain' = LoopIteration("S", plain, i)
    /\ UNCHANGED <<graph, second, tracked, puzzles>>

\* heap.pop() gave a candidate whose state is already visited: continue.
Stale ==
    /\ plain.pc = "loop"
    /\ \E i \in PopIndexes(plain) :
        /\ Branch("S", plain, i) = "stale"
        /\ plain' = LoopIteration("S", plain, i)
    /\ UNCHANGED <<graph, second, tracked, puzzles>>

\* heap.pop() gave a candidate to expand: visit it and push its successors.
Expand ==
    /\ plain.pc = "loop"
    /\ \E i \in PopIndexes(plain) :
        /\ Branch("S", plain, i) = "expand"
        /\ plain' = LoopIteration("S", plain, i)
    /\ UNCHANGED <<graph, second, tracked, puzzles>>

\* heap.pop() gave nothing: the loop ends and solve returns None.
Exhausted ==
    /\ plain.pc = "loop"
    /\ \E i \in PopIndexes(plain) :
        /\ Branch("S", plain, i) = "exhausted"
        /\ plain' = LoopIteration("S", plain, i)
    /\ UNCHANGED <<graph, second, tracked, puzzles>>

Next == Complete \/ Stale \/ Expand \/ Exhausted

Spec == Init /\ [][Next]_vars

\* solve is a plain loop on one thread: an iteration that can run does run.
FairSpec == Spec /\ WF_vars(Next)

\* ------------------- TrackedSpec: solve(s) and solve(Tracking::new(s))
\* The two searches run side by side, every iteration popping the entry at
\* the same index of the two heaps (the same tie-break choice).
TrackedInit ==
    /\ InitGraph
    /\ h2 = h
    /\ burrow = NotStarted
    /\ homework = NotStarted
    /\ NoGrids
    /\ plain = SolveStart("S", initial_state)
    /\ second = NotCalled
    /\ tracked = SolveStart("Tracking", TrackingNew(initial_state))

SideBySide ==
    /\ plain.pc = "loop"
    /\ tracked.pc = "loop"
    /\ \E i \in PopIndexes(plain) \cap PopIndexes(tracked) :
        /\ plain' = LoopIteration("S", plain, i)
        /\ tracked' = LoopIteration("Tracking", tracked, i)
    /\ UNCHANGED <<graph, second, puzzles>>

TrackedNext == SideBySide

TrackedSpec == TrackedInit /\ [][TrackedNext]_vars

\* ------------- PairSpec: solve(s) twice, the second call over the type S2
\* S2 is S with either the same heuristic or the heuristic that is always
\* zero; the heuristic of S is admissible.  The second call starts when the
\* first has returned and breaks ties on its own.
ZeroHeuristic == [s \in Nodes |-> 0]

PairInit ==
    /\ InitGraph
    /\ Admissible
    /\ burrow = NotStarted
    /\ homework = NotStarted
    /\ NoGrids
    /\ h2 \in {h, ZeroHeuristic}
    /\ plain = SolveStart("S", initial_state)
    /\ second = NotCalled
    /\ tracked = NotCalled

FirstIteration ==
    /\ plain.pc = "loop"
    /\ \E i \in PopIndexes(plain) : plain' = LoopIteration("S", plain, i)
    /\ UNCHANGED <<graph, second, tracked, puzzles>>

SecondCall ==
    /\ plain.pc = "returned"
    /\ second.pc = "idle"
    /\ second' = SolveStart("S2", initial_state)
    /\ UNCHANGED <<graph, plain, tracked, puzzles>>

SecondIteration ==
    /\ second.pc = "loop"
    /\ \E i \in PopIndexes(second) : second' = LoopIteration("S2", second, i)
    /\ UNCHANGED <<graph, plain, tracked, puzzles>>

PairNext == FirstIteration \/ SecondCall \/ SecondIteration

PairSpec == PairInit /\ [][PairNext]_vars

Returned == plain.pc = "returned"

\* ----------------------------------------------------------------- claims
\* C1: Optimality.  With an admissible heuristic (and the non-negative edge
\* costs usize gives), when a complete state is reachable solve returns
\* Some with the minimum total cost over all chains of successors from the
\* initial state to a complete state.
Optimality ==
    (Returned /\ Admissible /\ GoalReachable)
        => (plain.result # None /\ plain.result[2] = OptimalCost)

\* C2: Exhaustion.  solve returns None if and only if no complete state is
\* reachable from the initial state, and it returns None only with the
\* priority queue empty.
Exhaustion ==
    Returned =>
        /\ (plain.result = None) <=> ~GoalReachable
        /\ (plain.result = None) => plain.heap = <<>>

\* A search that ended with None after expanding every state of a cycle.
ExhaustionWitness ==
    /\ Returned
    /\ plain.result = None
    /\ plain.visited = {0, 1, 2}
    /\ \E e \in Range(succ[2]) : e[1] = 1

\* C3: Duplicate suppression.  Every state has its successors generated at
\* most once, exactly the visited states have been expanded, and the number
\* of successor generations never exceeds the number of reachable states.
DuplicateSuppression ==
    /\ \A n \in Nodes : plain.expansions[n] <= 1
    /\ \A n \in Nodes : (plain.expansions[n] = 1) <=> (n \in plain.visited)
    /\ SumOver(plain.expansions, Nodes) <= Cardinality(Reachable)

\* A second candidate of an expanded state was popped and discarded.
DuplicateSuppressionWitness ==
    /\ plain.pc = "loop"
    /\ plain.candidate # <<>>
    /\ plain.candidate[1].state \in plain.visited
    /\ plain.expansions[plain.candidate[1].state] = 1
    /\ \E c \in Range(plain.heap) : TRUE
    /\ Cardinality(plain.visited) = 3

\* C4: Single-state goal.  If the initial state is complete, the first
\* iteration of solve returns it with cost 0: the search is either before its
\* first pop or has returned, with an empty visited set and no call of
\* successors; the tracked search returns the initial state with an empty
\* history.
SingleStateGoal ==
    IsComplete(initial_state) =>
        /\ \/ plain.pc = "loop" /\ plain.candidate = <<>>
           \/ /\ plain.pc = "returned"
              /\ plain.result = Some(initial_state, 0)
        /\ plain.visited = {}
        /\ \A n \in Nodes : plain.expansions[n] = 0
        /\ \/ tracked.pc = "loop" /\ tracked.candidate = <<>>
           \/ /\ tracked.pc = "returned"
              /\ tracked.result # None
              /\ tracked.result[1].state = initial_state
              /\ tracked.result[1].history = <<>>
              /\ tracked.result[2] = 0
        /\ tracked.visited = {}
        /\ \A n \in Nodes : tracked.expansions[n] = 0

\* Both searches have returned a complete initial state that has successors.
SingleStateGoalWitness ==
    /\ IsComplete(initial_state)
    /\ Len(succ[initial_state]) = 2
    /\ plain.pc = "returned"
    /\ tracked.pc = "returned"
    /\ tracked.result # None

RECURSIVE SumCosts(_)
SumCosts(history) ==
    IF history = <<>> THEN 0 ELSE Head(history)[2] + SumCosts(Tail(history))

\* C5: Path tracking cost consistency.  For every candidate of the tracked
\* search (queued, popped or returned) the edge costs of its history sum to
\* its accumulated cost.
PathCostConsistency ==
    /\ \A c \in Range(tracked.heap) \cup Range(tracked.candidate) :
            SumCosts(c.state.history) = c.cost
    /\ tracked.result # None =>
            SumCosts(tracked.result[1].history) = tracked.result[2]

\* The tracked search returned a path of three edges of total cost 2 or more.
PathCostConsistencyWitness ==
    /\ tracked.pc = "returned"
    /\ tracked.result # None
    /\ Len(tracked.result[1].history) = 3
    /\ tracked.result[2] >= 2

IsEdge(from, to, cost) == <<to, cost>> \in Range(succ[from])

\* C6: Path tracking chain validity.  In the returned history the first
\* entry's state is the initial state, each entry's state leads to the next
\* entry's state by a successor with the entry's recorded cost, and the last
\* entry's state leads so to the returned state.
ChainValidity ==
    (tracked.pc = "returned" /\ tracked.result # None) =>
        LET t == tracked.result[1]
            n == Len(t.history)
            at(k) == IF k <= n THEN t.history[k][1] ELSE t.state
        IN  /\ at(1) = initial_state
            /\ \A k \in 1 .. n : IsEdge(at(k), at(k + 1), t.history[k][2])

\* A returned path through states 0, 1, 2 to the complete state 3.
ChainValidityWitness ==
    /\ tracked.pc = "returned"
    /\ tracked.result # None
    /\ tracked.result[1].state = 3
    /\ Len(tracked.result[1].history) = 3
    /\ tracked.result[1].history[2][1] = 1

\* The candidate of the plain search a candidate of the tracked search
\* stands for.
Untracked(c) ==
    [state |-> c.state.state, cost |-> c.cost,
     min_remaining_cost |-> c.min_remaining_cost]

\* C8: Tracking transparency.  Stepped side by side with the same tie-break
\* choices, solve(Tracking::new(s)) and solve(s) have the same choices of
\* pop, pop candidates of the same inner state and cost, hold the same
\* visited set (one entry per inner state), queue the same candidates,
\* generate successors of the same states and return the same state and cost.
TrackingTransparency ==
    /\ tracked.pc = plain.pc
    /\ PopIndexes(tracked) = PopIndexes(plain)
    /\ Len(tracked.heap) = Len(plain.heap)
    /\ \A k \in 1 .. Len(tracked.heap) : Untracked(tracked.heap[k]) = plain.heap[k]
    /\ Len(tracked.candidate) = Len(plain.candidate)
    /\ \A k \in 1 .. Len(tracked.candidate) :
            Untracked(tracked.candidate[k]) = plain.candidate[k]
    /\ {t.state : t \in tracked.visited} = plain.visited
    /\ Cardinality(tracked.visited) = Cardinality(plain.visited)
    /\ tracked.expansions = plain.expansions
    /\ (tracked.result = None) <=> (plain.result = None)
    /\ tracked.result # None =>
            /\ tracked.result[1].state = plain.result[1]
            /\ tracked.result[2] = plain.result[2]

\* Both searches discarded a stale candidate whose history differs from the
\* history of the visited entry of the same inner state.
TrackingTransparencyWitness ==
    /\ tracked.pc = "loop"
    /\ tracked.candidate # <<>>
    /\ tracked.expansions[tracked.candidate[1].state.state] = 1
    /\ \E v \in tracked.visited :
            /\ v.state = tracked.candidate[1].state.state
            /\ v.history # tracked.candidate[1].state.history
    /\ tracked.heap # <<>>

\* An iteration of solve returns, discards a stale candidate or adds a state
\* that is not yet in the visited set.
IterationProgress ==
    \/ plain'.pc = "returned"
    \/ /\ plain'.visited = plain.visited
       /\ Len(plain'.heap) = Len(plain.heap) - 1
       /\ plain'.candidate[1].state \in plain.visited
    \/ \E s \in Nodes \ plain.visited : plain'.visited = plain.visited \cup {s}

\* C9: Termination.  On every graph of the family, whatever the heuristic
\* and the edge costs, solve eventually returns, and every iteration
\* returns, discards a stale candidate or adds a state not yet visited.
Termination == <>Returned /\ [][IterationProgress]_vars

\* solve returned Some after expanding both states of the cycle 1 -> 2 -> 1
\* under a heuristic that is not admissible.
TerminationWitness ==
    /\ Returned
    /\ plain.result # None
    /\ ~Admissible
    /\ {1, 2} \subseteq plain.visited
    /\ \E e \in Range(succ[1]) : e[1] = 2
    /\ \E e \in Range(succ[2]) : e[1] = 1

\* The cost of a returned value: none for None.
CostOf(result) == IF result = None THEN <<>> ELSE <<result[2]>>

BothReturned == plain.pc = "returned" /\ second.pc = "returned"

\* C7: Heuristic degeneracy.  On the same graph solve with the heuristic
\* that is always zero returns the same cost as solve with an admissible
\* heuristic, and that cost is the optimal cost.
HeuristicDegeneracy ==
    (BothReturned /\ h2 = ZeroHeuristic /\ AdmissibleFor(h)) =>
        /\ CostOf(second.result) = CostOf(plain.result)
        /\ GoalReachable => CostOf(second.result) = <<OptimalCost>>

\* C10: Determinism of the result.  With an admissible heuristic two runs of
\* solve on the same graph and heuristic that break ties between candidates
\* of equal priority differently return the same cost.
ResultDeterminism ==
    (BothReturned /\ h2 = h /\ AdmissibleFor(h)) =>
        CostOf(second.result) = CostOf(plain.result)

\* ------------------------------------------------ the loop, step by step
\* The costs of the chains of successors of at most k edges that lead from
\* the initial state to s.
RECURSIVE ChainCosts(_, _)
ChainCosts(s, k) ==
    (IF s = initial_state THEN {0} ELSE {}) \cup
    (IF k = 0 THEN {}
     ELSE UNION {{c + e[2] : c \in ChainCosts(p, k - 1)} :
                    <<p, e>> \in {<<q, f>> \in Nodes \X (Nodes \X (0 .. MaxEdgeCost)) :
                                    f \in Range(succ[q]) /\ f[1] = s}})

\* Edge costs are not negative, so a cheapest chain repeats no state.
MinCostFromInitial(s) == Min(ChainCosts(s, Cardinality(Nodes) - 1))

PriorityKey(c) == c.cost + c.min_remaining_cost

\* The step is an iteration of the loop that popped a candidate.
Popped == plain.pc = "loop" /\ plain.heap # <<>> /\ plain' # plain

\* The step is an iteration that generated the successors of its candidate.
Expanded == Popped /\ plain'.visited # plain.visited

\* The heap without one occurrence of the candidate c.
Without(heap, c) ==
    {HeapRemove(heap, i) : i \in {j \in 1 .. Len(heap) : heap[j] = c}}

\* C14: Visited-set minimality.  With an admissible heuristic, when an
\* iteration inserts a state into the visited set the cost of the popped
\* candidate is the least cost of a chain of successors from the initial
\* state to that state.
VisitedMinimality ==
    [][(Admissible /\ Expanded) =>
            plain'.candidate[1].cost =
                MinCostFromInitial(plain'.candidate[1].state)]_vars

\* C15: Pop order.  The candidate an iteration pops was on the queue and its
\* priority key (cost plus min_remaining_cost) is less than or equal to the
\* key of every candidate on the queue; two candidates of the queue compare
\* by their keys alone, the lesser key being the greater candidate.
PopOrder ==
    [][Popped =>
        /\ plain'.candidate[1] \in Range(plain.heap)
        /\ \A c \in Range(plain.heap) :
                PriorityKey(plain'.candidate[1]) <= PriorityKey(c)
        /\ \A a, b \in Range(plain.heap) :
                /\ CandidateCmp(a, b) > 0 <=> PriorityKey(a) < PriorityKey(b)
                /\ CandidateCmp(a, b) = 0 <=> PriorityKey(a) = PriorityKey(b)
                /\ CandidateCmp(a, b) < 0 <=> PriorityKey(a) > PriorityKey(b)]_vars

\* A candidate was popped ahead of a candidate of lower min_remaining_cost
\* and higher key that is still on the queue.
PopOrderWitness ==
    /\ plain.pc = "loop"
    /\ plain.candidate # <<>>
    /\ \E c \in Range(plain.heap) :
            /\ c.min_remaining_cost < plain.candidate[1].min_remaining_cost
            /\ PriorityKey(c) > PriorityKey(plain.candidate[1])

\* C16: Soundness under any heuristic.  Whatever the heuristic, when solve
\* returns Some((s, c)) the state s is complete, c is the total cost of a
\* chain of successors from the initial state to s, and c is not below the
\* optimal cost.
Soundness ==
    (Returned /\ plain.result # None) =>
        /\ IsComplete(plain.result[1])
        /\ plain.result[2] \in
                ChainCosts(plain.result[1], Cardinality(Nodes) - 1)
        /\ plain.result[2] >= OptimalCost

\* Under a heuristic that is not admissible solve returned a complete state
\* at a cost above the optimal cost.
SoundnessWitness ==
    /\ Returned
    /\ plain.result # None
    /\ ~Admissible
    /\ plain.result[2] > OptimalCost

\* C17: Stale-candidate discard.  An iteration that pops a candidate that is
\* not complete and whose state is in the visited set removes that candidate
\* from the queue and changes nothing else: the visited set is the same, no
\* successors are generated or pushed, nothing is returned and the loop goes
\* on.
StaleDiscard ==
    [][(/\ Popped
        /\ ~IsComplete(plain'.candidate[1].state)
        /\ plain'.candidate[1].state \in plain.visited) =>
            /\ plain'.heap \in Without(plain.heap, plain'.candidate[1])
            /\ plain'.visited = plain.visited
            /\ plain'.expansions = plain.expansions
            /\ plain'.result = plain.result
            /\ plain'.pc = "loop"]_vars

\* The candidate popped last is for the visited state 2, whose successor 3
\* is not visited and is not queued at the cost this candidate would give
\* it: the successors of 2 were not pushed by this iteration, the candidate
\* was discarded.
StaleDiscardWitness ==
    /\ plain.pc = "loop"
    /\ plain.candidate # <<>>
    /\ plain.candidate[1].state = 2
    /\ 2 \in plain.visited
    /\ 3 \notin plain.visited
    /\ \E e \in Range(succ[2]) :
            /\ e[1] = 3
            /\ \A c \in Range(plain.heap) :
                    c.state = 3 => c.cost # plain.candidate[1].cost + e[2]

\* The candidates an iteration pushes after popping c, given the visited set
\* it leaves: one per successor of c's state that is not in that set, in the
\* order of successors(), at c's cost plus the cost of the successor.
PushedBy(c, visited) ==
    LET kept == SelectSeq(succ[c.state], LAMBDA e : e[1] \notin visited)
    IN  [k \in 1 .. Len(kept) |->
            [state |-> kept[k][1], cost |-> c.cost + kept[k][2],
             min_remaining_cost |-> h[kept[k][1]]]]

\* C18: Push filter.  An iteration that generates successors pushes a
\* candidate for a successor exactly when the successor's state is not in the
\* visited set, which by then holds the popped state: a successor that is the
\* popped state itself is not pushed, and no candidate is pushed for a state
\* in the visited set.
PushFilter ==
    [][Expanded =>
        \E rest \in Without(plain.heap, plain'.candidate[1]) :
            plain'.heap = rest \o PushedBy(plain'.candidate[1], plain'.visited)]_vars

\* State 1, which is its own successor, was expanded: no candidate for it is
\* on the queue, and state 2 has two candidates of different costs there.
PushFilterWitness ==
    /\ plain.pc = "loop"
    /\ plain.candidate # <<>>
    /\ plain.candidate[1].state = 1
    /\ \E e \in Range(succ[1]) : e[1] = 1
    /\ \A c \in Range(plain.heap) : c.state # 1
    /\ \E a, b \in Range(plain.heap) :
            a.state = 2 /\ b.state = 2 /\ a.cost # b.cost

\* C19: Visited set monotonicity.  Every step leaves the visited set as it
\* is or adds exactly one state to it, which was not in it and is not
\* complete; no state is removed from it.
VisitedMonotonicity ==
    [][\/ plain'.visited = plain.visited
       \/ \E s \in Nodes \ plain.visited :
            /\ ~IsComplete(s)
            /\ plain'.visited = plain.visited \cup {s}]_vars

\* solve returned a complete state after visiting three states, and the
\* complete states are not among the visited.
VisitedMonotonicityWitness ==
    /\ Returned
    /\ plain.result # None
    /\ Cardinality(plain.visited) = 3
    /\ plain.visited \cap goal = {}

\* C20 as stated: the number of candidates on the queue never decreases from
\* one iteration to the next.
QueueNeverShrinks ==
    [][plain.pc = "loop" => Len(plain'.heap) >= Len(plain.heap)]_vars

\* C20, amended: Priority queue size.  An iteration that pops a candidate
\* takes exactly one candidate off the queue and, when it generates
\* successors, adds one per successor whose state is not in the visited set;
\* the number of candidates decreases by one when it pushes none.
QueueSize ==
    [][Popped =>
        Len(plain'.heap) =
            Len(plain.heap) - 1 +
            (IF plain'.visited # plain.visited
                THEN Cardinality({k \in 1 .. Len(succ[plain'.candidate[1].state]) :
                        succ[plain'.candidate[1].state][k][1] \notin plain'.visited})
                ELSE 0)]_vars

\* The loop is running on an empty queue after two states were visited: the
\* queue shrank.
QueueSizeWitness ==
    /\ plain.pc = "loop"
    /\ plain.heap = <<>>
    /\ Cardinality(plain.visited) >= 2

\* ======================================================== src/bin/day23.rs
\* The candidates find_lowest_energy is followed through, from the start.
MaxMoves == 2

\* --------------------------------------------------------------- Amphipod
Amphipod == {"Amber", "Bronze", "Copper", "Desert"}

\* Amphipod::room
AmphipodRoom(self) ==
    CASE self = "Amber" -> 0
      [] self = "Bronze" -> 1
      [] self = "Copper" -> 2
      [] self = "Desert" -> 3

energy_to_move(self) ==
    CASE self = "Amber" -> 1
      [] self = "Bronze" -> 10
      [] self = "Copper" -> 100
      [] self = "Desert" -> 1000

\* ----------------------------------------------------------------- Layout
\* corridor: [Option<Amphipod>; 7] and rooms: [Vec<Amphipod>; 4], a Vec
\* being a sequence whose last element is the one nearest to the corridor.
Spots == 0 .. 6
Rooms == 0 .. 3

abs_diff(x, y) == IF x >= y THEN x - y ELSE y - x

\* x.saturating_sub(y)
saturating_sub(x, y) == IF x >= y THEN x - y ELSE 0

\* Layout::read: the two rows of the diagram, the lower one pushed first.
LayoutRead(lower, upper) ==
    [room_depth |-> 2,
     corridor |-> [sp \in Spots |-> None],
     rooms |-> [r \in Rooms |-> <<lower[r + 1], upper[r + 1]>>]]

\* Vec::insert(index, element)
VecInsert(vec, index, element) ==
    SubSeq(vec, 1, index) \o <<element>> \o SubSeq(vec, index + 1, Len(vec))

insert_row(self, index, row) ==
    [self EXCEPT
        !.rooms = [r \in Rooms |-> VecInsert(self.rooms[r], index, row[r + 1])],
        !.room_depth = @ + 1]

LayoutIsComplete(self) ==
    \A r \in Rooms :
        /\ Len(self.rooms[r]) = self.room_depth
        /\ \A k \in 1 .. Len(self.rooms[r]) : AmphipodRoom(self.rooms[r][k]) = r

spot_position(sp) ==
    IF sp = 0 THEN 0 ELSE IF sp < 6 THEN 2 * sp - 1 ELSE 10

room_entrance_position(r) == 2 * r + 2

distance_to_room(self, sp, r) ==
    abs_diff(spot_position(sp), room_entrance_position(r))
        + self.room_depth - Len(self.rooms[r])

distance_between_rooms(self, room1, room2) ==
    IF room1 # room2
    THEN abs_diff(room_entrance_position(room1), room_entrance_position(room2))
            + 2 * self.room_depth + 1
            - Len(self.rooms[room1]) - Len(self.rooms[room2])
    ELSE 0

\* (the way out of the room counted as the way into it)
distance_from_room_as_to_room(self, r, sp) == distance_to_room(self, sp, r)

distance_from_room(self, r, sp) ==
    abs_diff(spot_position(sp), room_entrance_position(r))
        + self.room_depth + 1 - Len(self.rooms[r])

distance_between_spots(self, spot1, spot2) ==
    abs_diff(spot_position(spot1), spot_position(spot2))

\* Option<usize>: None or <<spot>>
get_spot(position) ==
    IF position = 0 THEN <<0>>
    ELSE IF position < 10
        THEN (IF position % 2 = 1 THEN <<(position + 1) \div 2>> ELSE None)
    ELSE <<6>>

get_room(position) ==
    IF position = 0 THEN None
    ELSE IF position < 10
        THEN (IF position % 2 = 0 THEN <<(position \div 2) - 1>> ELSE None)
    ELSE None

spots_between(source, dest) ==
    LET positions == IF source < dest THEN (source + 1) .. dest
                                      ELSE dest .. (source - 1)
    IN  {get_spot(q)[1] : q \in {p \in positions : get_spot(p) # None}}

is_clear(self, from, to) ==
    \A sp \in spots_between(from, to) : self.corridor[sp] = None

\* (the occupants of the room not looked at)
AllAtHomeUnchecked(self, r) == TRUE

\* rooms[room].iter().all(|amphipod| amphipod.room() == room)
AllAtHome(self, r) ==
    \A k \in 1 .. Len(self.rooms[r]) : AmphipodRoom(self.rooms[r][k]) = r

can_move_from_corridor_to_room(self, sp, r) ==
    /\ is_clear(self, spot_position(sp), room_entrance_position(r))
    /\ Len(self.rooms[r]) < self.room_depth
    /\ AllAtHome(self, r)

can_move_from_room_to_corridor(self, r, sp) ==
    is_clear(self, room_entrance_position(r), spot_position(sp))

can_move_in_corridor(self, spot1, spot2) ==
    is_clear(self, spot_position(spot1), spot_position(spot2))

can_move_between_rooms(self, from, to) ==
    /\ from # to
    /\ is_clear(self, room_entrance_position(from), room_entrance_position(to))
    /\ Len(self.rooms[to]) < self.room_depth
    /\ AllAtHome(self, to)

\* 0, 1, .., n - 1 in order
UpTo(n) == [k \in 1 .. n |-> k - 1]

RECURSIVE Flatten(_)
Flatten(seqs) ==
    IF seqs = <<>> THEN <<>> ELSE Head(seqs) \o Flatten(Tail(seqs))

RECURSIVE Sum(_)
Sum(seq) == IF seq = <<>> THEN 0 ELSE Head(seq) + Sum(Tail(seq))

\* the pairs (spot, amphipod) of the occupied spots, in order
amphipods_in_corridor(self) ==
    LET occupied == SelectSeq(UpTo(7), LAMBDA sp : self.corridor[sp] # None)
    IN  [k \in 1 .. Len(occupied) |->
            <<occupied[k], self.corridor[occupied[k]][1]>>]

\* the tuples (room, height, len, amphipod), room by room from the bottom
amphipods_in_rooms(self) ==
    Flatten([i \in 1 .. 4 |->
        [k \in 1 .. Len(self.rooms[i - 1]) |->
            <<i - 1, k - 1, Len(self.rooms[i - 1]), self.rooms[i - 1][k]>>]])

\* (the distances as they are, nothing taken off for the cells of the room
\* the amphipods of a kind share)
min_energy_to_solve_whole_distances(self) ==
    LET inC == amphipods_in_corridor(self)
        inR == amphipods_in_rooms(self)
    IN  Sum([k \in 1 .. Len(inC) |->
                energy_to_move(inC[k][2]) *
                    distance_to_room(self, inC[k][1], AmphipodRoom(inC[k][2]))])
        + Sum([k \in 1 .. Len(inR) |->
                energy_to_move(inR[k][4]) *
                    distance_between_rooms(self, inR[k][1],
                                           AmphipodRoom(inR[k][4]))])

min_energy_to_solve(self) ==
    LET spare == (self.room_depth * (self.room_depth - 1)) \div 2
        inC == amphipods_in_corridor(self)
        inR == amphipods_in_rooms(self)
    IN  Sum([k \in 1 .. Len(inC) |->
                energy_to_move(inC[k][2]) *
                    saturating_sub(
                        distance_to_room(self, inC[k][1], AmphipodRoom(inC[k][2])),
                        spare)])
        + Sum([k \in 1 .. Len(inR) |->
                energy_to_move(inR[k][4]) *
                    saturating_sub(
                        distance_between_rooms(self, inR[k][1],
                                               AmphipodRoom(inR[k][4])),
                        spare)])

\* -------------------------------------------------------------- Candidate
\* history: Option<Vec<(Layout, usize)>>, None or <<vec>>
Day23CandidateNew(layout, energy, track_history) ==
    [layout |-> layout, energy |-> energy,
     min_energy_remaining |-> min_energy_to_solve(layout),
     history |-> IF track_history THEN << <<>> >> ELSE None]

Day23Successor(self, layout, new_energy) ==
    [layout |-> layout,
     energy |-> self.energy + new_energy,
     min_energy_remaining |-> min_energy_to_solve(layout),
     history |-> IF self.history = None THEN None
                 ELSE <<Append(self.history[1], <<self.layout, new_energy>>)>>]

move_from_corridor(self, sp) ==
    LET amphipod == self.layout.corridor[sp][1]
        new_layout == [self.layout EXCEPT !.corridor[sp] = None]
        target_room == AmphipodRoom(amphipod)
        home ==
            IF can_move_from_corridor_to_room(self.layout, sp, target_room)
            THEN <<Day23Successor(self,
                    [new_layout EXCEPT !.rooms[target_room] = Append(@, amphipod)],
                    energy_to_move(amphipod)
                        * distance_to_room(self.layout, sp, target_room))>>
            ELSE <<>>
        others == SelectSeq(UpTo(7), LAMBDA other_spot :
                    other_spot # sp
                    /\ can_move_in_corridor(self.layout, sp, other_spot))
    IN  home \o
        [k \in 1 .. Len(others) |->
            Day23Successor(self,
                [new_layout EXCEPT !.corridor[others[k]] = <<amphipod>>],
                energy_to_move(amphipod)
                    * distance_between_spots(self.layout, sp, others[k]))]

move_from_room(self, r) ==
    LET vec == self.layout.rooms[r]
        amphipod == vec[Len(vec)]
        new_layout == [self.layout EXCEPT !.rooms[r] = SubSeq(vec, 1, Len(vec) - 1)]
        target_room == AmphipodRoom(amphipod)
        home ==
            IF can_move_between_rooms(self.layout, r, target_room)
            THEN <<Day23Successor(self,
                    [new_layout EXCEPT !.rooms[target_room] = Append(@, amphipod)],
                    energy_to_move(amphipod)
                        * distance_between_rooms(self.layout, r, target_room))>>
            ELSE <<>>
        spots == SelectSeq(UpTo(7), LAMBDA sp :
                    can_move_from_room_to_corridor(self.layout, r, sp))
    IN  home \o
        [k \in 1 .. Len(spots) |->
            Day23Successor(self,
                [new_layout EXCEPT !.corridor[spots[k]] = <<amphipod>>],
                energy_to_move(amphipod)
                    * distance_from_room(self.layout, r, spots[k]))]

\* (only the amphipod nearest to the corridor looked at)
TopMisplaced(self, r) ==
    /\ self.rooms[r] # <<>>
    /\ AmphipodRoom(self.rooms[r][Len(self.rooms[r])]) # r

\* contents.iter().any(|amphipod| amphipod.room() != *room)
AnyMisplaced(self, r) ==
    \E k \in 1 .. Len(self.rooms[r]) : AmphipodRoom(self.rooms[r][k]) # r

Day23Successors(self) ==
    LET inC == amphipods_in_corridor(self.layout)
        from == SelectSeq(UpTo(4), LAMBDA r : AnyMisplaced(self.layout, r))
    IN  Flatten([k \in 1 .. Len(inC) |-> move_from_corridor(self, inC[k][1])])
        \o Flatten([k \in 1 .. Len(from) |-> move_from_room(self, from[k])])

\* ------------------------------------------------ BurrowSpec: the candidates
\* The rows of the diagrams read: the lower row of three diagrams (every
\* amphipod at home, the diagram of test_successors_from_rooms, neighbours
\* swapped), the upper row the four kinds in order, shifted by any number of
\* rooms, or the upper row of test_successors_from_rooms.
LowerRows ==
    {<<"Amber", "Bronze", "Copper", "Desert">>,
     <<"Amber", "Desert", "Copper", "Amber">>,
     <<"Bronze", "Amber", "Desert", "Copper">>}

UpperRows ==
    {[k \in 1 .. 4 |->
        <<"Amber", "Bronze", "Copper", "Desert">>[((k - 1 + shift) % 4) + 1]] :
            shift \in 0 .. 3}
    \cup {<<"Bronze", "Copper", "Bronze", "Desert">>}

\* The calls of solve are not made.
NoSearch ==
    /\ succ = [n \in Nodes |-> <<>>]
    /\ h = [n \in Nodes |-> 0]
    /\ h2 = [n \in Nodes |-> 0]
    /\ goal = {}
    /\ initial_state = 0
    /\ plain = NotCalled
    /\ second = NotCalled
    /\ tracked = NotCalled

search == <<graph, plain, second, tracked>>

\* heap.push(Candidate::new(start_layout.clone(), 0, track_history))
BurrowStart(layout, track_history) ==
    [pc |-> "start",
     candidate |-> Day23CandidateNew(layout, 0, track_history),
     successors |-> <<>>, moves |-> 0]

BurrowInit ==
    /\ NoSearch
    /\ homework = NotStarted
    /\ NoGrids
    /\ \E lower \in LowerRows, upper \in UpperRows, track_history \in BOOLEAN :
            burrow = BurrowStart(LayoutRead(lower, upper), track_history)

\* main: the two rows of part two inserted above the lowest row; the search
\* of part one before it leaves the layout as it was read.  Both searches of
\* main are find_lowest_energy(&layout, false).
InsertRows ==
    /\ burrow.pc = "start"
    /\ burrow.candidate.layout.room_depth = 2
    /\ burrow.candidate.history = None
    /\ burrow' = BurrowStart(
            insert_row(
                insert_row(burrow.candidate.layout, 1,
                           <<"Desert", "Copper", "Bronze", "Amber">>),
                1, <<"Desert", "Bronze", "Amber", "Copper">>),
            FALSE)
    /\ UNCHANGED <<search, homework, grids>>

\* The candidate popped is complete: find_lowest_energy returns its energy.
BurrowReturn ==
    /\ burrow.pc \in {"start", "popped"}
    /\ LayoutIsComplete(burrow.candidate.layout)
    /\ burrow' = [burrow EXCEPT !.pc = "returned"]
    /\ UNCHANGED <<search, homework, grids>>

\* The candidate popped is not complete: candidate.successors().
BurrowExpand ==
    /\ burrow.pc \in {"start", "popped"}
    /\ ~LayoutIsComplete(burrow.candidate.layout)
    /\ burrow' = [burrow EXCEPT !.pc = "expanded",
                                !.successors = Day23Successors(burrow.candidate)]
    /\ UNCHANGED <<search, homework, grids>>

\* A later heap.pop() gives one of the successors pushed.
BurrowPop ==
    /\ burrow.pc = "expanded"
    /\ burrow.moves < MaxMoves
    /\ \E k \in 1 .. Len(burrow.successors) :
            burrow' = [burrow EXCEPT !.pc = "popped",
                                     !.candidate = burrow.successors[k],
                                     !.successors = <<>>,
                                     !.moves = @ + 1]
    /\ UNCHANGED <<search, homework, grids>>

BurrowNext == InsertRows \/ BurrowReturn \/ BurrowExpand \/ BurrowPop

BurrowSpec == BurrowInit /\ [][BurrowNext]_vars

\* ------------------------------------------------- the burrow as displayed
\* Display for Layout: the corridor is the row of positions 0 .. 10, a spot
\* is shown at the position get_spot gives it, a room in the column get_room
\* gives it, and row index of the rooms shows rooms[room][room_depth - index - 1].
SpotColumn(sp) == CHOOSE p \in 0 .. 10 : get_spot(p) = <<sp>>

RoomColumn(r) == CHOOSE p \in 2 .. 8 : get_room(p) = <<r>>

\* The rows between the corridor and the amphipod at the given height of a
\* room, its own row included.
RowsBelowCorridor(self, height) == (self.room_depth - height - 1) + 1

\* The steps from the cell of the amphipod nearest to the corridor of room r
\* up to the corridor and along it to the spot.
StepsFromRoom(self, r, sp) ==
    RowsBelowCorridor(self, Len(self.rooms[r]) - 1)
        + abs_diff(SpotColumn(sp), RoomColumn(r))

\* The corridor is empty and the four rooms are full.
FullRooms(self) ==
    /\ \A sp \in Spots : self.corridor[sp] = None
    /\ \A r \in Rooms : Len(self.rooms[r]) = self.room_depth

\* The room holds an amphipod that does not belong to it.
HoldsStranger(self, r) ==
    \E k \in 1 .. Len(self.rooms[r]) : AmphipodRoom(self.rooms[r][k]) # r

\* The successors at hand that took an amphipod out of room r.
MovedFrom(r) ==
    {k \in 1 .. Len(burrow.successors) :
        Len(burrow.successors[k].layout.rooms[r])
            < Len(burrow.candidate.layout.rooms[r])}

\* C11: Amphipod successor count.  From a layout whose corridor is empty and
\* whose four rooms are full, Candidate::successors yields for each room that
\* holds an amphipod not belonging to it exactly 7 successors, the occupant
\* nearest to the corridor moved to each of the 7 spots, and none for a room
\* that holds only its own amphipods: 7 times the number of such rooms in
\* all, 28 when it is all four.
SuccessorCount ==
    (burrow.pc = "expanded" /\ FullRooms(burrow.candidate.layout)) =>
        LET l == burrow.candidate.layout
        IN  /\ \A r \in Rooms :
                IF HoldsStranger(l, r)
                THEN /\ Cardinality(MovedFrom(r)) = 7
                     /\ \A sp \in Spots : \E k \in MovedFrom(r) :
                            burrow.successors[k].layout =
                                [l EXCEPT
                                    !.rooms[r] = SubSeq(@, 1, Len(@) - 1),
                                    !.corridor[sp] = <<l.rooms[r][Len(l.rooms[r])]>>]
                ELSE MovedFrom(r) = {}
            /\ Len(burrow.successors) =
                    7 * Cardinality({r \in Rooms : HoldsStranger(l, r)})
            /\ (\A r \in Rooms : HoldsStranger(l, r)) =>
                    Len(burrow.successors) = 28

\* The 28 successors of the layout of test_successors_from_rooms, whose room
\* 3 holds an Amber under a Desert.
SuccessorCountWitness ==
    /\ burrow.pc = "expanded"
    /\ FullRooms(burrow.candidate.layout)
    /\ burrow.candidate.layout.rooms[3] = <<"Amber", "Desert">>
    /\ burrow.candidate.layout.rooms[1] = <<"Desert", "Copper">>
    /\ Len(burrow.successors) = 28

\* C12: Amphipod room-to-corridor distance.  In every layout the search
\* comes to, for every spot and every room holding len amphipods, len in
\* 1 .. room_depth, distance_from_room(room, spot) is the number of steps
\* from the cell of the occupant nearest to the corridor to the spot, which is
\* |spot_position(spot) - room_entrance_position(room)| + (room_depth - len + 1);
\* and a successor that moved that occupant to the spot costs its
\* energy_to_move times that number more than its parent.
RoomToCorridorDistance ==
    burrow.pc # "idle" =>
        LET l == burrow.candidate.layout
        IN  /\ \A r \in Rooms, sp \in Spots :
                Len(l.rooms[r]) \in 1 .. l.room_depth =>
                    /\ distance_from_room(l, r, sp) = StepsFromRoom(l, r, sp)
                    /\ distance_from_room(l, r, sp) =
                            abs_diff(spot_position(sp), room_entrance_position(r))
                                + (l.room_depth - Len(l.rooms[r]) + 1)
            /\ \A r \in Rooms, sp \in Spots : \A k \in MovedFrom(r) :
                burrow.successors[k].layout.corridor[sp] # l.corridor[sp] =>
                    burrow.successors[k].energy =
                        burrow.candidate.energy +
                        energy_to_move(l.rooms[r][Len(l.rooms[r])])
                            * StepsFromRoom(l, r, sp)

\* The layout of test_distance_from_room_to_spot, a Desert on spot 5 and room
\* 3 holding one Amber: 9 steps from room 3 to spot 1; its successors are at
\* hand.
RoomToCorridorDistanceWitness ==
    /\ burrow.pc = "expanded"
    /\ burrow.candidate.layout.room_depth = 2
    /\ burrow.candidate.layout.corridor = [sp \in Spots |->
            IF sp = 5 THEN <<"Desert">> ELSE None]
    /\ burrow.candidate.layout.rooms[3] = <<"Amber">>
    /\ burrow.candidate.layout.rooms[0] = <<"Amber", "Bronze">>
    /\ distance_from_room(burrow.candidate.layout, 3, 1) = 9
    /\ MovedFrom(3) # {}

\* ================================== src/bin/day18.rs, src/bin/day18_flat.rs
\* The pairs of a number of the homework.
MaxPairs == 6

\* The digits of the literals of the homework.
Digits == {1, 9}

\* The characters '0' .. '9'.
DigitChars == <<"0", "1", "2", "3", "4", "5", "6", "7", "8", "9">>

IsDigit(c) == \E d \in 1 .. 10 : DigitChars[d] = c

\* char::to_digit(10)
to_digit(c) == (CHOOSE d \in 1 .. 10 : DigitChars[d] = c) - 1

\* A panic of the thread: unwrap on None.
Panic == <<"Panic">>

\* ------------------------------------------------------- day18.rs: Value
\* enum Value { Literal(u64), Number(Number) }, a Number holding left, right.
Literal(val) == <<"Literal", val>>
Number(left, right) == <<"Number", left, right>>

is_literal(self) == self[1] = "Literal"

\* mod parsing: literal, the digits at the head of the input
RECURSIVE TakeDigits(_)
TakeDigits(input) ==
    IF input # <<>> /\ IsDigit(Head(input))
    THEN <<Head(input)>> \o TakeDigits(Tail(input))
    ELSE <<>>

\* u64::from_str
RECURSIVE U64FromStr(_)
U64FromStr(ds) ==
    IF Len(ds) = 1 THEN to_digit(ds[1])
    ELSE 10 * U64FromStr(SubSeq(ds, 1, Len(ds) - 1)) + to_digit(ds[Len(ds)])

\* mod parsing: value and number; <<value, rest>>, or None for an Err.
RECURSIVE ParseValue(_)
ParseValue(input) ==
    IF input = <<>> THEN None
    ELSE IF IsDigit(Head(input))
        THEN LET ds == TakeDigits(input)
             IN  <<Literal(U64FromStr(ds)), SubSeq(input, Len(ds) + 1, Len(input))>>
    ELSE IF Head(input) = "["
        THEN LET l == ParseValue(Tail(input))
             IN  IF l = None \/ l[2] = <<>> \/ Head(l[2]) # "," THEN None
                 ELSE LET r == ParseValue(Tail(l[2]))
                      IN  IF r = None \/ r[2] = <<>> \/ Head(r[2]) # "]"
                          THEN None
                          ELSE <<Number(l[1], r[1]), Tail(r[2])>>
    ELSE None

\* impl FromStr for Number: value.parse().unwrap()
NumberFromStr(line) == ParseValue(line)[1]

RECURSIVE value_at(_, _)
value_at(self, path) ==
    IF path = <<>> THEN <<self>>
    ELSE IF is_literal(self) THEN None
    ELSE value_at(IF Head(path) = "Left" THEN self[2] ELSE self[3], Tail(path))

\* *self.value_at_mut(path).unwrap() = value
RECURSIVE SetValueAt(_, _, _)
SetValueAt(self, path, value) ==
    IF path = <<>> THEN value
    ELSE IF Head(path) = "Left"
        THEN Number(SetValueAt(self[2], Tail(path), value), self[3])
    ELSE Number(self[2], SetValueAt(self[3], Tail(path), value))

RECURSIVE first_literal_path(_)
first_literal_path(self) ==
    IF is_literal(self) THEN <<>>
    ELSE <<"Left">> \o first_literal_path(self[2])

RECURSIVE last_literal_path(_)
last_literal_path(self) ==
    IF is_literal(self) THEN <<>>
    ELSE <<"Right">> \o last_literal_path(self[3])

\* the loop of first_number_path
RECURSIVE LeftWhileNumber(_)
LeftWhileNumber(self) ==
    IF is_literal(self) \/ is_literal(self[2]) THEN <<>>
    ELSE <<"Left">> \o LeftWhileNumber(self[2])

first_number_path(self) ==
    IF is_literal(self) THEN None ELSE <<LeftWhileNumber(self)>>

\* loop { match path.pop() { None => return None,
\*        Some(dir) if dir == until => break, _ => {} } }
RECURSIVE PopUntil(_, _)
PopUntil(path, until) ==
    IF path = <<>> THEN None
    ELSE IF path[Len(path)] = until THEN <<SubSeq(path, 1, Len(path) - 1)>>
    ELSE PopUntil(SubSeq(path, 1, Len(path) - 1), until)

next_number_path(self, path) ==
    LET number == value_at(self, path)[1]
        inner == first_number_path(number[3])
    IN  IF inner # None THEN <<path \o <<"Right">> \o inner[1]>>
        ELSE PopUntil(path, "Left")

prev_literal_path(self, path) ==
    LET popped == PopUntil(path, "Right")
    IN  IF popped = None THEN None
        ELSE LET prev_path == popped[1] \o <<"Left">>
             IN  <<prev_path \o last_literal_path(value_at(self, prev_path)[1])>>

next_literal_path(self, path) ==
    LET popped == PopUntil(path, "Left")
    IN  IF popped = None THEN None
        ELSE LET next_path == popped[1] \o <<"Right">>
             IN  <<next_path \o first_literal_path(value_at(self, next_path)[1])>>

\* number_paths().find(|path| path.len() >= 4), from the path prev on
RECURSIVE FindNumberPath(_, _)
FindNumberPath(self, prev) ==
    IF prev = None THEN None
    ELSE IF Len(prev[1]) >= 4 THEN prev
    ELSE FindNumberPath(self, next_number_path(self, prev[1]))

path_to_explode(self) == FindNumberPath(self, first_number_path(self))

\* if let Some(val) = self.prev_literal_mut / next_literal_mut(..) { *val += by }
AddAt(self, literal_path, by) ==
    IF literal_path = None THEN self
    ELSE SetValueAt(self, literal_path[1],
                    Literal(value_at(self, literal_path[1])[1][2] + by))

\* Value::explode
ValueExplode(self, path) ==
    LET number == value_at(self, path)[1]
    IN  IF ~is_literal(number[2]) \/ ~is_literal(number[3]) THEN Panic
        ELSE LET left == number[2][2]
                 right == number[3][2]
                 one == AddAt(self, prev_literal_path(self, path \o <<"Left">>), left)
                 two == AddAt(one, next_literal_path(one, path \o <<"Right">>), right)
             IN  SetValueAt(two, path, Literal(0))

\* (a regular number of exactly 10 left alone)
should_split_above_ten(self, path) ==
    LET at == value_at(self, path)[1]
    IN  is_literal(at) /\ at[2] > 10

should_split(self, path) ==
    LET at == value_at(self, path)[1]
    IN  is_literal(at) /\ at[2] >= 10

\* literal_paths().find(|path| self.should_split(path)), from the path prev on
RECURSIVE FindLiteralPath(_, _)
FindLiteralPath(self, prev) ==
    IF prev = None THEN None
    ELSE IF should_split(self, prev[1]) THEN prev
    ELSE FindLiteralPath(self, next_literal_path(self, prev[1]))

path_to_split(self) == FindLiteralPath(self, <<first_literal_path(self)>>)

ValueSplit(self, path) ==
    LET num == value_at(self, path)[1][2]
        left == num \div 2
        right == left + (num % 2)
    IN  SetValueAt(self, path, Number(Literal(left), Literal(right)))

\* ------------------------------------------------ day18_flat.rs: Vec<Token>
\* enum Token { Open, Close, Literal(u32), Comma }
Open == <<"Open">>
Close == <<"Close">>
Comma == <<"Comma">>

\* Indexes count from 0, as in the source.
At(number, ix) == number[ix + 1]

parse_number(line) ==
    [k \in 1 .. Len(line) |->
        IF line[k] = "[" THEN Open
        ELSE IF line[k] = "]" THEN Close
        ELSE IF line[k] = "," THEN Comma
        ELSE Literal(to_digit(line[k]))]

\* the loop of index_to_explode from index on, depth being the depth so far
RECURSIVE ScanToExplode(_, _, _, _)
ScanToExplode(number, index, depth, at_least) ==
    IF index >= Len(number) THEN None
    ELSE IF At(number, index) = Open
        THEN (IF depth + 1 >= at_least THEN <<index>>
              ELSE ScanToExplode(number, index + 1, depth + 1, at_least))
    ELSE IF At(number, index) = Close
        THEN ScanToExplode(number, index + 1, depth - 1, at_least)
    ELSE ScanToExplode(number, index + 1, depth, at_least)

\* (a pair nested inside three pairs taken)
index_to_explode_inside_three(number) == ScanToExplode(number, 0, 0, 4)

index_to_explode(number) == ScanToExplode(number, 0, 0, 5)

\* Vec::splice(from..to, with)
Splice(number, from, to, with) ==
    SubSeq(number, 1, from) \o with \o SubSeq(number, to + 1, Len(number))

\* explode of day18_flat.rs
explode(number, index) ==
    IF At(number, index + 1)[1] # "Literal" \/ At(number, index + 3)[1] # "Literal"
    THEN Panic
    ELSE LET left == At(number, index + 1)[2]
             right == At(number, index + 3)[2]
             before == {ix \in 0 .. index - 1 : At(number, ix)[1] = "Literal"}
             after == {ix \in index + 5 .. Len(number) - 1 :
                            At(number, ix)[1] = "Literal"}
             one == IF before = {} THEN number
                    ELSE LET ix == CHOOSE i \in before : \A j \in before : j <= i
                         IN  [number EXCEPT ![ix + 1] = Literal(@[2] + left)]
             two == IF after = {} THEN one
                    ELSE LET ix == CHOOSE i \in after : \A j \in after : i <= j
                         IN  [one EXCEPT ![ix + 1] = Literal(@[2] + right)]
         IN  Splice(two, index, index + 5, <<Literal(0)>>)

index_to_split(number) ==
    LET big == {ix \in 0 .. Len(number) - 1 :
                    At(number, ix)[1] = "Literal" /\ At(number, ix)[2] >= 10}
    IN  IF big = {} THEN None
        ELSE <<CHOOSE i \in big : \A j \in big : i <= j>>

split(number, index) ==
    LET num == At(number, index)[2]
        left == num \div 2
        right == left + (num % 2)
    IN  Splice(number, index, index + 1,
               <<Open, Literal(left), Comma, Literal(right), Close>>)

\* One turn of the loop of reduce of day18_flat.rs.
FlatReduceStep(flat) ==
    IF flat.pc # "reduce" THEN flat
    ELSE IF index_to_explode(flat.number) # None
        THEN LET out == explode(flat.number, index_to_explode(flat.number)[1])
             IN  IF out = Panic THEN [flat EXCEPT !.pc = "panicked"]
                 ELSE [flat EXCEPT !.number = out]
    ELSE IF index_to_split(flat.number) # None
        THEN [flat EXCEPT !.number = split(@, index_to_split(flat.number)[1])]
    ELSE [flat EXCEPT !.pc = "done"]

\* ------------------------------------------ HomeworkSpec: reduce, both ways
\* The numbers of n pairs with literals of Digits.
RECURSIVE Values(_)
Values(n) ==
    IF n = 0 THEN {Literal(d) : d \in Digits}
    ELSE UNION {{Number(l, r) : l \in Values(k), r \in Values(n - 1 - k)} :
                    k \in 0 .. n - 1}

\* The line of the input file a number is written on.
RECURSIVE LineOf(_)
LineOf(value) ==
    IF is_literal(value) THEN <<DigitChars[value[2] + 1]>>
    ELSE <<"[">> \o LineOf(value[2]) \o <<",">> \o LineOf(value[3]) \o <<"]">>

\* The turns of the loop of reduce followed are at most this many.
MaxTurns == 20

\* Both binaries parsed the line and enter reduce on it; turns counts the
\* turns of the loop taken.
HomeworkStart(line) ==
    [pc |-> "reduce", line |-> line, turns |-> 0,
     tree |-> [pc |-> "reduce", output |-> NumberFromStr(line)],
     flat |-> [pc |-> "reduce", number |-> parse_number(line)]]

HomeworkInit ==
    /\ NoSearch
    /\ burrow = NotStarted
    /\ NoGrids
    /\ \E n \in 1 .. MaxPairs : \E value \in Values(n) :
            homework = HomeworkStart(LineOf(value))

\* Number::reduce: if let Some(to_explode) = output.path_to_explode()
HomeworkExplode ==
    /\ homework.tree.pc = "reduce"
    /\ homework.turns < MaxTurns
    /\ path_to_explode(homework.tree.output) # None
    /\ LET out == ValueExplode(homework.tree.output,
                               path_to_explode(homework.tree.output)[1])
       IN  homework' = [homework EXCEPT
                !.tree = IF out = Panic THEN [@ EXCEPT !.pc = "panicked"]
                         ELSE [@ EXCEPT !.output = out],
                !.flat = FlatReduceStep(@),
                !.turns = @ + 1]
    /\ UNCHANGED <<search, burrow, grids>>

\* Number::reduce: else if let Some(to_split) = output.path_to_split()
HomeworkSplit ==
    /\ homework.tree.pc = "reduce"
    /\ homework.turns < MaxTurns
    /\ path_to_explode(homework.tree.output) = None
    /\ path_to_split(homework.tree.output) # None
    /\ homework' = [homework EXCEPT
            !.tree.output = ValueSplit(@, path_to_split(homework.tree.output)[1]),
            !.flat = FlatReduceStep(@),
            !.turns = @ + 1]
    /\ UNCHANGED <<search, burrow, grids>>

\* Number::reduce: else break
HomeworkDone ==
    /\ homework.tree.pc = "reduce"
    /\ homework.turns < MaxTurns
    /\ path_to_explode(homework.tree.output) = None
    /\ path_to_split(homework.tree.output) = None
    /\ homework' = [homework EXCEPT !.tree.pc = "done",
                                    !.flat = FlatReduceStep(@),
                                    !.turns = @ + 1]
    /\ UNCHANGED <<search, burrow, grids>>

HomeworkNext == HomeworkExplode \/ HomeworkSplit \/ HomeworkDone

HomeworkSpec == HomeworkInit /\ [][HomeworkNext]_vars

\* ------------------------------------------------ the number, as written
\* The tokens a Value is written with.
RECURSIVE ValueTokens(_)
ValueTokens(value) ==
    IF is_literal(value) THEN <<value>>
    ELSE <<Open>> \o ValueTokens(value[2]) \o <<Comma>>
            \o ValueTokens(value[3]) \o <<Close>>

\* The index, from 0, of the first token of the value at the path.
RECURSIVE TokenIndexOf(_, _)
TokenIndexOf(value, path) ==
    IF path = <<>> THEN 0
    ELSE IF Head(path) = "Left" THEN 1 + TokenIndexOf(value[2], Tail(path))
    ELSE 1 + Len(ValueTokens(value[2])) + 1 + TokenIndexOf(value[3], Tail(path))

\* The pairs open after the token at index ix, from 0.
OpenAt(tokens, ix) ==
    Cardinality({k \in 1 .. ix + 1 : tokens[k] = Open})
        - Cardinality({k \in 1 .. ix + 1 : tokens[k] = Close})

Nesting(tokens) == Max0({OpenAt(tokens, ix) : ix \in 0 .. Len(tokens) - 1})

\* The indexes of the pairs nested inside four pairs or more.
InsideFour(tokens) ==
    {ix \in 0 .. Len(tokens) - 1 :
        tokens[ix + 1] = Open /\ OpenAt(tokens, ix) >= 5}

SingleDigits(tokens) ==
    \A k \in 1 .. Len(tokens) : tokens[k][1] = "Literal" => tokens[k][2] <= 9

\* The tokens after the pair of two literals at index ix exploded: its left
\* value added to the nearest literal before it, its right value to the
\* nearest literal after it, the pair replaced by 0.
ExplodedTokens(tokens, ix) ==
    LET left == tokens[ix + 2][2]
        right == tokens[ix + 4][2]
        IsLit(k) == tokens[k][1] = "Literal"
        NearestBefore(k) ==
            k <= ix /\ IsLit(k) /\ \A j \in k + 1 .. ix : ~IsLit(j)
        NearestAfter(k) ==
            k > ix + 5 /\ IsLit(k) /\ \A j \in ix + 6 .. k - 1 : ~IsLit(j)
        changed == [k \in 1 .. Len(tokens) |->
            IF NearestBefore(k) THEN Literal(tokens[k][2] + left)
            ELSE IF NearestAfter(k) THEN Literal(tokens[k][2] + right)
            ELSE tokens[k]]
    IN  [k \in 1 .. Len(tokens) - 4 |->
            IF k <= ix THEN changed[k]
            ELSE IF k = ix + 1 THEN Literal(0)
            ELSE changed[k + 4]]

\* Both implementations are in reduce on the same number, of single-digit
\* literals, which has a pair nested inside four pairs.
ToExplode ==
    /\ homework.tree.pc = "reduce"
    /\ homework.flat.pc = "reduce"
    /\ ValueTokens(homework.tree.output) = homework.flat.number
    /\ SingleDigits(homework.flat.number)
    /\ InsideFour(homework.flat.number) # {}

\* Both implementations take the leftmost pair nested inside four pairs and
\* leave the number with that pair exploded.
ExplodedAlike ==
    LET tokens == homework.flat.number
        leftmost == CHOOSE ix \in InsideFour(tokens) :
                        \A other \in InsideFour(tokens) : ix <= other
    IN  /\ path_to_explode(homework.tree.output) # None
        /\ TokenIndexOf(homework.tree.output,
                        path_to_explode(homework.tree.output)[1]) = leftmost
        /\ index_to_explode(tokens) = <<leftmost>>
        /\ homework'.tree.pc = "reduce"
        /\ homework'.flat.pc = "reduce"
        /\ homework'.flat.number = ExplodedTokens(tokens, leftmost)
        /\ ValueTokens(homework'.tree.output) = homework'.flat.number

\* C13 as stated: for every snailfish number with single-digit literals the
\* tree implementation and the token implementation select the same pair,
\* the leftmost nested inside four pairs, and produce the same number, that
\* pair exploded.
ExplodeEquivalence == [][ToExplode => ExplodedAlike]_vars

\* C13, amended: Snailfish explode, tree versus flat.  For every snailfish
\* number with single-digit literals that is nested at most five pairs deep,
\* so that a pair nested inside four pairs holds two regular numbers, the
\* tree implementation and the token implementation select the same pair,
\* the leftmost nested inside four pairs, and produce the same number: the
\* pair's left value added to the nearest regular number to its left, its
\* right value to the nearest to its right, the pair replaced by 0.
ExplodeEquivalenceToFive ==
    [][(ToExplode /\ Nesting(homework.flat.number) <= 5) => ExplodedAlike]_vars

\* [[[[1,[9,1]],1],1],1] was reduced both ways, by exploding [9,1] between
\* two regular numbers, splitting the 10 and exploding [5,5], to
\* [[[[0,5],2],1],1].
ExplodeEquivalenceToFiveWitness ==
    /\ homework.pc # "idle"
    /\ homework.line = LineOf(
            Number(Number(Number(Number(Literal(1),
                Number(Literal(9), Literal(1))), Literal(1)), Literal(1)),
                Literal(1)))
    /\ homework.tree.pc = "done"
    /\ homework.flat.pc = "done"
    /\ homework.tree.output =
            Number(Number(Number(Number(Literal(0), Literal(5)), Literal(2)),
                Literal(1)), Literal(1))
    /\ homework.flat.number = ValueTokens(homework.tree.output)

\* ------------------------------------------------ costs and histories
\* The candidates an iteration pushed: the entries of the heap after the
\* step that follow those the heap kept.
NewlyPushed(before, after) ==
    {after[k] : k \in Len(before) .. Len(after)}

\* C22: Cost accumulation.  The initial candidate has cost 0; every candidate
\* an iteration pushes has the cost of the popped candidate plus the cost of
\* an edge from the popped state to its state, which is not below the cost
\* of the popped candidate; the heuristic is stored as min_remaining_cost
\* only, and the cost returned is the cost of the popped candidate.
CostAccumulation ==
    /\ plain.heap = <<[state |-> initial_state, cost |-> 0,
                       min_remaining_cost |-> h[initial_state]]>>
    /\ [][Popped =>
            LET c == plain'.candidate[1] IN
            /\ \A n \in NewlyPushed(plain.heap, plain'.heap) :
                    /\ \E e \in Range(succ[c.state]) :
                            e[1] = n.state /\ n.cost = c.cost + e[2]
                    /\ n.cost >= c.cost
                    /\ n.min_remaining_cost = h[n.state]
            /\ plain'.result # None =>
                    plain'.result = Some(c.state, c.cost)]_vars

\* solve returned a state whose heuristic is not zero, at a cost that is not
\* zero.
CostAccumulationWitness ==
    /\ Returned
    /\ plain.result # None
    /\ plain.result[2] > 0
    /\ h[plain.result[1]] > 0

\* ------------- HistorySpec: either the tracked search or the burrow runs
HistoryInit == TrackedInit \/ BurrowInit

HistoryNext == TrackedNext \/ BurrowNext

HistorySpec == HistoryInit /\ [][HistoryNext]_vars

\* The step is an iteration of the tracked search that popped a candidate.
TrackedPopped ==
    tracked.pc = "loop" /\ tracked.heap # <<>> /\ tracked' # tracked

\* C21: History append.  In the tracked search the history of the initial
\* state is empty, the candidate popped is one of the queue with its history
\* as it was queued, and the history of every candidate pushed is the history
\* of the popped candidate followed by one entry: the popped state and the
\* cost of the edge to the successor.  A day 23 candidate that tracks its
\* history has one entry per move made, and the history of each of its
\* successors is its own followed by one entry: its layout and the energy of
\* the move.
HistoryAppend ==
    /\ [](burrow.pc \in {"start", "popped", "expanded", "returned"} =>
            /\ burrow.candidate.history # None =>
                    Len(burrow.candidate.history[1]) = burrow.moves
            /\ \A k \in 1 .. Len(burrow.successors) :
                    burrow.successors[k].history =
                        IF burrow.candidate.history = None THEN None
                        ELSE <<Append(burrow.candidate.history[1],
                                      <<burrow.candidate.layout,
                                        burrow.successors[k].energy
                                            - burrow.candidate.energy>>)>>)
    /\ [](tracked.pc = "loop" /\ tracked.visited = {} =>
            \A c \in Range(tracked.heap) : c.state.history = <<>>)
    /\ [][TrackedPopped =>
            LET c == tracked'.candidate[1] IN
            /\ c \in Range(tracked.heap)
            /\ \A n \in NewlyPushed(tracked.heap, tracked'.heap) :
                    /\ Len(n.state.history) = Len(c.state.history) + 1
                    /\ \E e \in Range(succ[c.state.state]) :
                            /\ e[1] = n.state.state
                            /\ n.state.history =
                                    c.state.history \o
                                        << <<c.state.state, e[2]>> >>]_vars

\* The tracked search holds a candidate two edges from the initial state
\* whose history names two different states.
HistoryAppendWitness ==
    /\ tracked.pc = "loop"
    /\ \E c \in Range(tracked.heap) :
            /\ Len(c.state.history) = 2
            /\ c.state.history[1][1] # c.state.history[2][1]

\* ------------------------------------------- solve over a usize of few bits
\* usize is Width bits wide.  An addition that overflows panics in a build
\* with overflow checks (debug) and wraps in a build without (release).
Width == 2

UsizeMax == 2^Width - 1

WrappingAdd(a, b) == (a + b) % (2^Width)

Builds == {"debug", "release"}

\* self.cost + self.min_remaining_cost, as the release build computes it
NarrowKey(c) == WrappingAdd(c.cost, c.min_remaining_cost)

KeyOverflows(c) == c.cost + c.min_remaining_cost > UsizeMax

\* Ord for Candidate over the keys as computed
NarrowCmp(self, other) ==
    IF NarrowKey(self) < NarrowKey(other) THEN 1
    ELSE IF NarrowKey(self) > NarrowKey(other) THEN -1 ELSE 0

NarrowPopChoices(heap) ==
    {i \in 1 .. Len(heap) :
        \A j \in 1 .. Len(heap) : NarrowCmp(heap[i], heap[j]) >= 0}

\* Self::new(state, self.cost + cost)
NarrowSuccessors(self) ==
    [k \in 1 .. Len(Successors(self.state)) |->
        CandidateNew("S", Successors(self.state)[k][1],
                     WrappingAdd(self.cost, Successors(self.state)[k][2]))]

\* self.cost + cost overflows for one of the successors
CostOverflows(self) ==
    \E e \in Range(Successors(self.state)) : self.cost + e[2] > UsizeMax

\* BinaryHeap::push compares the new entry with its parent: the push onto a
\* heap that is not empty computes the key of the new entry, and the push
\* onto a heap of one entry the key of that entry.
PushOverflows(heap, c) ==
    /\ heap # <<>>
    /\ KeyOverflows(c) \/ (Len(heap) = 1 /\ KeyOverflows(heap[1]))

\* One of the pushes of an iteration overflows.
RECURSIVE NarrowPushOverflows(_, _, _)
NarrowPushOverflows(heap, visited, cands) ==
    IF cands = <<>> THEN FALSE
    ELSE IF Head(cands).state \in visited
        THEN NarrowPushOverflows(heap, visited, Tail(cands))
    ELSE \/ PushOverflows(heap, Head(cands))
         \/ NarrowPushOverflows(HeapPush(heap, Head(cands)), visited,
                                    Tail(cands))

\* for next_candidate in candidate.successors() { if !visited.contains(..) push }
RECURSIVE NarrowPush(_, _, _)
NarrowPush(heap, visited, cands) ==
    IF cands = <<>> THEN heap
    ELSE NarrowPush(IF Head(cands).state \notin visited
                        THEN HeapPush(heap, Head(cands)) ELSE heap,
                    visited, Tail(cands))

NarrowStart(build) ==
    [pc |-> "loop", build |-> build,
     heap |-> HeapPush(<<>>, CandidateNew("S", initial_state, 0)),
     visited |-> {}, candidate |-> <<>>, result |-> None]

\* The graphs of InitGraph, under heuristics that are 0 or the greatest
\* usize.
NarrowInit ==
    /\ \E w \in [1 .. Len(EdgeSlots) -> -1 .. MaxEdgeCost] :
        /\ \E k \in ExtraSlots : w[k] < 0
        /\ succ = SuccOf(w)
    /\ h \in {f \in [Nodes -> {0, UsizeMax}] : f[0] = 0}
    /\ goal \in {{0}} \cup SUBSET (Nodes \ {0})
    /\ initial_state = 0
    /\ h2 = h
    /\ burrow = NotStarted
    /\ homework = NotStarted
    /\ NoGrids
    /\ second = NotCalled
    /\ tracked = NotCalled
    /\ \E build \in Builds : plain = NarrowStart(build)

\* while let Some(candidate) = heap.pop(): the heap is empty
NarrowExhausted ==
    /\ plain.pc = "loop"
    /\ plain.heap = <<>>
    /\ plain' = [plain EXCEPT !.pc = "returned", !.candidate = <<>>,
                              !.result = None]
    /\ UNCHANGED <<graph, second, tracked, puzzles>>

\* if candidate.state.is_complete() { return Some(..); }
NarrowComplete ==
    /\ plain.pc = "loop"
    /\ \E i \in NarrowPopChoices(plain.heap) :
        /\ IsComplete(plain.heap[i].state)
        /\ plain' = [plain EXCEPT
                !.pc = "returned",
                !.heap = HeapRemove(plain.heap, i),
                !.candidate = <<plain.heap[i]>>,
                !.result = Some(plain.heap[i].state, plain.heap[i].cost)]
    /\ UNCHANGED <<graph, second, tracked, puzzles>>

\* if visited.contains(&candidate.state) { continue; }
NarrowStale ==
    /\ plain.pc = "loop"
    /\ \E i \in NarrowPopChoices(plain.heap) :
        /\ ~IsComplete(plain.heap[i].state)
        /\ plain.heap[i].state \in plain.visited
        /\ plain' = [plain EXCEPT
                !.heap = HeapRemove(plain.heap, i),
                !.candidate = <<plain.heap[i]>>]
    /\ UNCHANGED <<graph, second, tracked, puzzles>>

\* visited.insert(..); for next_candidate in candidate.successors() { .. }
NarrowExpand ==
    /\ plain.pc = "loop"
    /\ \E i \in NarrowPopChoices(plain.heap) :
        LET candidate == plain.heap[i]
            visited == plain.visited \cup {candidate.state}
            rest == HeapRemove(plain.heap, i)
            cands == NarrowSuccessors(candidate)
        IN  /\ ~IsComplete(candidate.state)
            /\ candidate.state \notin plain.visited
            /\ plain' =
                IF /\ plain.build = "debug"
                   /\ \/ CostOverflows(candidate)
                      \/ NarrowPushOverflows(rest, visited, cands)
                THEN [plain EXCEPT !.pc = "panicked",
                                   !.candidate = <<candidate>>]
                ELSE [plain EXCEPT !.heap = NarrowPush(rest, visited, cands),
                                   !.visited = visited,
                                   !.candidate = <<candidate>>]
    /\ UNCHANGED <<graph, second, tracked, puzzles>>

NarrowNext ==
    NarrowExhausted \/ NarrowComplete \/ NarrowStale \/ NarrowExpand

NarrowSpec == NarrowInit /\ [][NarrowNext]_vars

\* Every heuristic and the cost of every chain of successors that repeats no
\* state fit in a usize.
FitIndividually ==
    /\ \A s \in Nodes : h[s] <= UsizeMax
    /\ \A s \in Nodes :
            \A c \in ChainCosts(s, Cardinality(Nodes) - 1) : c <= UsizeMax

\* C30: Priority key arithmetic.  When every heuristic and every accumulated
\* cost fits in a usize, no addition of the engine overflows: the engine
\* does not panic, the key of every candidate on the queue is its cost plus
\* its min_remaining_cost, and the candidate popped has the least such sum.
KeyArithmetic ==
    /\ [](FitIndividually =>
            /\ plain.pc # "panicked"
            /\ \A c \in Range(plain.heap) : ~KeyOverflows(c))
    /\ [][(FitIndividually /\ Popped /\ plain'.pc # "panicked") =>
            \A c \in Range(plain.heap) :
                PriorityKey(plain'.candidate[1]) <= PriorityKey(c)]_vars

\* --------------------------------------------------- the moves of the burrow
\* How many amphipods of the kind the layout holds, corridor and rooms.
HowMany(self, kind) ==
    Cardinality({sp \in Spots : self.corridor[sp] = <<kind>>})
    + Sum([i \in 1 .. 4 |->
            Cardinality({k \in 1 .. Len(self.rooms[i - 1]) :
                            self.rooms[i - 1][k] = kind})])

\* The spots and the rooms whose contents differ between two layouts.
SpotsChanged(old, new) == {sp \in Spots : old.corridor[sp] # new.corridor[sp]}

RoomsChanged(old, new) == {r \in Rooms : old.rooms[r] # new.rooms[r]}

\* The amphipod left the place: a spot it occupied, or the top of a room.
LeftSpot(old, new, sp, a) ==
    old.corridor[sp] = <<a>> /\ new.corridor[sp] = None

LeftRoom(old, new, r, a) ==
    old.rooms[r] = Append(new.rooms[r], a)

\* The amphipod came to the place: a spot that was empty, or the top of its
\* own room, which held no amphipod of another kind and had space.
CameToSpot(old, new, sp, a) ==
    old.corridor[sp] = None /\ new.corridor[sp] = <<a>>

CameToRoom(old, new, r, a) ==
    /\ new.rooms[r] = Append(old.rooms[r], a)
    /\ AmphipodRoom(a) = r
    /\ \A k \in 1 .. Len(old.rooms[r]) : old.rooms[r][k] = a
    /\ Len(new.rooms[r]) <= old.room_depth

\* new is old with exactly one amphipod relocated.
OneRelocated(old, new) ==
    /\ new.room_depth = old.room_depth
    /\ Cardinality(SpotsChanged(old, new))
            + Cardinality(RoomsChanged(old, new)) = 2
    /\ \E a \in Amphipod :
        /\ \/ \E sp \in SpotsChanged(old, new) : LeftSpot(old, new, sp, a)
           \/ \E r \in RoomsChanged(old, new) : LeftRoom(old, new, r, a)
        /\ \/ \E sp \in SpotsChanged(old, new) : CameToSpot(old, new, sp, a)
           \/ \E r \in RoomsChanged(old, new) : CameToRoom(old, new, r, a)

\* C26: Amphipod conservation.  Every layout Candidate::successors produces
\* holds as many amphipods of each kind as its parent and is its parent with
\* exactly one amphipod relocated: taken from a corridor spot or from the top
\* of a room, and put on a corridor spot that was empty or on top of its own
\* room, which held no amphipod of another kind.  No room of a layout the
\* search comes to holds more than room_depth amphipods.
Conservation ==
    burrow.pc \in {"start", "popped", "expanded", "returned"} =>
        /\ \A r \in Rooms :
                Len(burrow.candidate.layout.rooms[r])
                    <= burrow.candidate.layout.room_depth
        /\ \A k \in 1 .. Len(burrow.successors) :
                /\ \A kind \in Amphipod :
                        HowMany(burrow.successors[k].layout, kind)
                            = HowMany(burrow.candidate.layout, kind)
                /\ OneRelocated(burrow.candidate.layout,
                                burrow.successors[k].layout)

\* One successor at hand moved an amphipod from a room into its own room,
\* another moved one from the corridor to another spot of the corridor.
ConservationWitness ==
    /\ burrow.pc = "expanded"
    /\ \E k \in 1 .. Len(burrow.successors) :
            Cardinality(RoomsChanged(burrow.candidate.layout,
                                     burrow.successors[k].layout)) = 2
    /\ \E k \in 1 .. Len(burrow.successors) :
            Cardinality(SpotsChanged(burrow.candidate.layout,
                                     burrow.successors[k].layout)) = 2

\* ----------------------------------------- find_lowest_energy, as it runs
Day23Key(c) == c.energy + c.min_energy_remaining

\* Ord for Candidate (day23): the comparison of the keys reversed
Day23Cmp(self, other) ==
    IF Day23Key(self) < Day23Key(other) THEN 1
    ELSE IF Day23Key(self) > Day23Key(other) THEN -1 ELSE 0

\* BinaryHeap<Candidate> of find_lowest_energy: the bag of its entries.  pop
\* returns a greatest entry; which one among equal entries is not specified.
Day23PopChoices(heap) ==
    {c \in BagToSet(heap) :
        \A d \in BagToSet(heap) : Day23Cmp(c, d) >= 0}

\* for next_candidate in candidate.successors() { if !visited.contains(..) push }
RECURSIVE Day23Push(_, _, _)
Day23Push(heap, visited, cands) ==
    IF cands = <<>> THEN heap
    ELSE Day23Push(IF Head(cands).layout \notin visited
                        THEN heap (+) SetToBag({Head(cands)}) ELSE heap,
                   visited, Tail(cands))

\* The locals of find_lowest_energy.
FindStart(layout, track_history) ==
    [pc |-> "loop",
     heap |-> SetToBag({Day23CandidateNew(layout, 0, track_history)}),
     visited |-> {}, result |-> None, printed |-> None]

\* One iteration of `while let Some(candidate) = heap.pop()`, popping the
\* entry given (which is not read when the heap is empty).  The heap and the
\* visited set are dropped on return; print_history has printed the history
\* of the candidate returned when it tracks one.
FindIteration(f, candidate) ==
    IF f.heap = EmptyBag
    THEN [pc |-> "returned", heap |-> EmptyBag, visited |-> {},
          result |-> None, printed |-> None]
    ELSE LET rest == f.heap (-) SetToBag({candidate})
             visited == f.visited \cup {candidate.layout}
         IN  IF LayoutIsComplete(candidate.layout)
                THEN [pc |-> "returned", heap |-> EmptyBag, visited |-> {},
                      result |-> <<candidate.energy>>,
                      printed |-> candidate.history]
             ELSE IF candidate.layout \in f.visited
                THEN [f EXCEPT !.heap = rest]
             ELSE [f EXCEPT !.heap = Day23Push(rest, visited,
                                        Day23Successors(candidate)),
                            !.visited = visited]

\* The upper rows of the diagrams three moves from complete: the kinds in
\* order but for two neighbours swapped.
SwappedRows ==
    {<<"Bronze", "Amber", "Copper", "Desert">>,
     <<"Amber", "Copper", "Bronze", "Desert">>,
     <<"Amber", "Bronze", "Desert", "Copper">>}

\* Layouts the search comes to late: the two amphipods of a kind in the
\* corridor, their room empty, every other amphipod at home.  The search
\* from the diagram with the rooms <<B, A>>, <<A, B>> comes to the first by
\* moving the upper Amber to spot 0, the upper Bronze to spot 3, the lower
\* Amber to spot 1 and the two Bronze into their room; the others likewise.
Emptied(kind, spot1, spot2) ==
    [room_depth |-> 2,
     corridor |-> [sp \in Spots |->
                    IF sp \in {spot1, spot2} THEN <<kind>> ELSE None],
     rooms |-> [r \in Rooms |->
                IF r = AmphipodRoom(kind) THEN <<>>
                ELSE LET own == CHOOSE a \in Amphipod : AmphipodRoom(a) = r
                     IN  <<own, own>>]]

EndgameLayouts ==
    {LayoutRead(<<"Amber", "Bronze", "Copper", "Desert">>, upper) :
        upper \in SwappedRows}
    \cup {Emptied("Amber", 0, 1), Emptied("Bronze", 1, 3),
          Emptied("Desert", 5, 6)}

\* The sequences of moves followed are of at most this many moves.
SequenceMoves == MaxMoves + 2

\* EndgameSpec: find_lowest_energy(&layout, false) runs on a layout; when it
\* has returned,
\* the sequences of moves Candidate::successors produces from the diagram
\* are followed, one move at a time, by a candidate that tracks its history.
EndgameStart(layout) ==
    [pc |-> "find", start |-> layout, find |-> FindStart(layout, FALSE),
     candidate |-> Day23CandidateNew(layout, 0, TRUE),
     successors |-> <<>>, moves |-> 0]

EndgameInit ==
    /\ NoSearch
    /\ homework = NotStarted
    /\ NoGrids
    /\ \E layout \in EndgameLayouts : burrow = EndgameStart(layout)

FindLoop ==
    /\ burrow.pc = "find"
    /\ burrow.find.pc = "loop"
    /\ \E c \in (IF burrow.find.heap = EmptyBag THEN {None}
                  ELSE Day23PopChoices(burrow.find.heap)) :
            burrow' = [burrow EXCEPT !.find = FindIteration(@, c)]
    /\ UNCHANGED <<search, homework, grids>>

FindReturned ==
    /\ burrow.pc = "find"
    /\ burrow.find.pc = "returned"
    /\ burrow' = [burrow EXCEPT !.pc = "start"]
    /\ UNCHANGED <<search, homework, grids>>

SequenceExpand ==
    /\ burrow.pc \in {"start", "popped"}
    /\ ~LayoutIsComplete(burrow.candidate.layout)
    /\ burrow' = [burrow EXCEPT !.pc = "expanded",
                                !.successors = Day23Successors(burrow.candidate)]
    /\ UNCHANGED <<search, homework, grids>>

SequenceMove ==
    /\ burrow.pc = "expanded"
    /\ burrow.moves < SequenceMoves
    /\ \E k \in 1 .. Len(burrow.successors) :
            burrow' = [burrow EXCEPT !.pc = "popped",
                                     !.candidate = burrow.successors[k],
                                     !.successors = <<>>,
                                     !.moves = @ + 1]
    /\ UNCHANGED <<search, homework, grids>>

EndgameNext == FindLoop \/ FindReturned \/ SequenceExpand \/ SequenceMove

EndgameSpec == EndgameInit /\ [][EndgameNext]_vars

\* The energy of the moves of a history from its entry i on.
RECURSIVE EnergyFrom(_, _)
EnergyFrom(history, i) ==
    IF i > Len(history) THEN 0
    ELSE history[i][2] + EnergyFrom(history, i + 1)

\* Some sequence of at most k moves from the candidate ends on a complete
\* layout at the given total energy.
RECURSIVE Attainable(_, _, _)
Attainable(candidate, energy, k) ==
    IF LayoutIsComplete(candidate.layout) THEN candidate.energy = energy
    ELSE /\ k > 0
         /\ \E s \in Range(Day23Successors(candidate)) :
                s.energy <= energy /\ Attainable(s, energy, k - 1)

\* C25: Amphipod heuristic admissibility.  min_energy_to_solve is 0 on a
\* complete layout and, for every layout on a sequence of moves that
\* Candidate::successors produces from a starting diagram to a complete
\* layout, it is at most the energy of the moves that remain; the energy
\* find_lowest_energy returned for the diagram is the energy of one such
\* sequence and is at most the energy of each of them.
Admissibility ==
    /\ (burrow.pc = "start" /\ burrow.find.pc = "returned") =>
            /\ burrow.find.result # None
            /\ Attainable(burrow.candidate, burrow.find.result[1],
                          SequenceMoves)
    /\ (/\ burrow.pc = "popped"
        /\ burrow.find.pc = "returned"
        /\ LayoutIsComplete(burrow.candidate.layout)) =>
            LET history == burrow.candidate.history[1] IN
            /\ min_energy_to_solve(burrow.candidate.layout) = 0
            /\ \A i \in 1 .. Len(history) :
                    min_energy_to_solve(history[i][1])
                        <= EnergyFrom(history, i)
            /\ burrow.find.result # None
            /\ burrow.find.result[1] <= burrow.candidate.energy

\* A sequence of four moves from a diagram came to a complete layout at more
\* than the energy find_lowest_energy returned, through a layout whose
\* min_energy_to_solve is not 0.
AdmissibilityWitness ==
    /\ burrow.pc = "popped"
    /\ burrow.find.pc = "returned"
    /\ LayoutIsComplete(burrow.candidate.layout)
    /\ burrow.moves = 4
    /\ burrow.start.corridor = [sp \in Spots |-> None]
    /\ burrow.candidate.energy > burrow.find.result[1]
    /\ min_energy_to_solve(burrow.candidate.history[1][3][1]) > 0

\* ------------------------------------------------------ reduce, to the end
\* The number reduce was entered with is the sum of two reduced numbers: a
\* pair of two numbers without a pair nested inside four pairs, of regular
\* numbers below 10.
SumOfReduced ==
    /\ homework.pc = "reduce"
    /\ Nesting(parse_number(homework.line)) <= 5

\* The places, from 1, of the regular numbers that are 10 or greater.
TooBig(tokens) ==
    {k \in 1 .. Len(tokens) :
        tokens[k][1] = "Literal" /\ tokens[k][2] >= 10}

\* The tokens after the regular number at place k split: a pair of its half
\* rounded down and its half rounded up.
SplitTokens(tokens, k) ==
    SubSeq(tokens, 1, k - 1)
        \o <<Open, Literal(tokens[k][2] \div 2), Comma,
             Literal((tokens[k][2] + 1) \div 2), Close>>
        \o SubSeq(tokens, k + 1, Len(tokens))

\* One turn of reduce on the tree: the leftmost pair nested inside four pairs
\* explodes if there is one; if there is none the leftmost regular number
\* that is 10 or greater splits; if there is none either reduce returns.
TurnAsRuled ==
    LET output == homework.tree.output
        tokens == ValueTokens(output)
        after == ValueTokens(homework'.tree.output)
    IN  IF InsideFour(tokens) # {}
        THEN /\ path_to_explode(output) # None
             /\ TokenIndexOf(output, path_to_explode(output)[1])
                    = Min(InsideFour(tokens))
             /\ homework'.tree.pc = "reduce"
             /\ Len(after) = Len(tokens) - 4
        ELSE IF TooBig(tokens) # {}
        THEN /\ homework'.tree.pc = "reduce"
             /\ after = SplitTokens(tokens, Min(TooBig(tokens)))
        ELSE /\ homework'.tree.pc = "done"
             /\ after = tokens

\* reduce has returned, both ways, the same number, in which no pair is
\* nested inside four pairs and no regular number is 10 or greater.
Reduced ==
    /\ homework.tree.pc = "done"
    /\ homework.flat.pc = "done"
    /\ homework.flat.number = ValueTokens(homework.tree.output)
    /\ InsideFour(homework.flat.number) = {}
    /\ TooBig(homework.flat.number) = {}

\* C29: Snailfish reduction.  On the sum of two reduced numbers every turn
\* of reduce explodes the leftmost pair nested inside four pairs when there
\* is one and splits, the leftmost regular number of 10 or more, only when
\* there is none; reduce returns, before MaxTurns turns are over; and when
\* it has returned, the tree and the tokens are the same number, without a
\* pair nested inside four pairs and without a regular number of 10 or more.
SnailfishReduction ==
    /\ [][(SumOfReduced /\ homework.tree.pc = "reduce"
                /\ homework' # homework) => TurnAsRuled]_vars
    /\ []((SumOfReduced /\ (homework.tree.pc # "reduce"
                             \/ homework.flat.pc # "reduce")) => Reduced)
    /\ []((SumOfReduced /\ homework.tree.pc = "reduce") =>
                homework.turns < MaxTurns)

\* C29 as stated, of every number reduce is given: every turn neither
\* implementation panics in is by the rule, reduce returns on the sum of two
\* reduced numbers, and whenever one implementation has returned so has the
\* other, with the same number, reduced.
SnailfishReductionOfAny ==
    /\ [][(homework # NotStarted /\ homework.pc = "reduce"
                /\ homework.tree.pc = "reduce" /\ homework' # homework
                /\ homework'.tree.pc # "panicked"
                /\ homework'.flat.pc # "panicked") => TurnAsRuled]_vars
    /\ []((homework # NotStarted /\ homework.pc = "reduce"
                /\ (homework.tree.pc = "done" \/ homework.flat.pc = "done"))
            => Reduced)
    /\ []((SumOfReduced /\ homework.tree.pc = "reduce") =>
                homework.turns < MaxTurns)

\* [[[[[9,9],9],9],9],9] was reduced, by explosions and splits in turn, in
\* five turns.
SnailfishReductionWitness ==
    /\ SumOfReduced
    /\ homework.line = LineOf(
            Number(Number(Number(Number(Number(Literal(9), Literal(9)),
                                        Literal(9)), Literal(9)), Literal(9)),
                   Literal(9)))
    /\ Reduced
    /\ homework.turns >= 5

\* ------------------------------------------------ day15: the map of risks
\* The sides of the map read are at most this many cells.
MaxSide == 2

\* with_mult repeats the map at most this many times each way.
MaxMult == 2

\* The digits of the maps read.
RiskLevels == {1, 9}

\* a / b and a % b of isize, b > 0: the quotient is rounded towards zero and
\* the remainder has the sign of a.
TruncDiv(a, b) == IF a >= 0 THEN a \div b ELSE -((-a) \div b)
TruncRem(a, b) == a - b * TruncDiv(a, b)

\* A usize is written as the integer n it holds when n >= 0 is small and as
\* n - 2^64 when it is within a few units of 2^64: `as usize` of a negative
\* isize gives the latter.  2^64 modulo 9:
UsizeRangeMod9 == ((2 ^ 16 % 9) ^ 4) % 9

\* a + b of usize wraps (release) and overflows (debug: panic) when the sum
\* passes 2^64.
UsizeAdd(a, b) == a + b
UsizeAddOverflows(a, b) == (a < 0 \/ b < 0) /\ (a + b >= 0 \/ (a < 0 /\ b < 0))

\* a - 1 of usize
UsizeSubOne(a) == a - 1
UsizeSubOneOverflows(a) == a = 0

\* a % 9 of usize
UsizeRem9(a) == IF a >= 0 THEN a % 9 ELSE (a + UsizeRangeMod9) % 9

\* |a|
Abs(a) == IF a >= 0 THEN a ELSE -a

\* Position::distance_to
distance_to(self, other) == Abs(self[1] - other[1]) + Abs(self[2] - other[2])

\* Position::adjacent, in its order
adjacent(self) ==
    << <<self[1], self[2] + 1>>, <<self[1] + 1, self[2]>>,
       <<self[1] - 1, self[2]>>, <<self[1], self[2] - 1>> >>

\* RiskMap::new on the risks of a map of width by height digits
RiskMapNew(risks, width, height) ==
    [risks |-> risks, mult |-> 1, width |-> width, height |-> height]

\* RiskMap::with_mult
with_mult(self, mult) == [self EXCEPT !.mult = mult]

\* RiskMap::top_left, RiskMap::bottom_right
top_left(self) == <<0, 0>>
bottom_right(self) ==
    <<self.mult * self.width - 1, self.mult * self.height - 1>>

\* RiskMap::get, the coordinates it computes: both wraps divide by the width.
GetX(self, position) == TruncRem(position[1], self.width)
GetXWrap(self, position) == TruncDiv(position[1], self.width)
GetY(self, position) == TruncRem(position[2], self.width)
GetYWrap(self, position) == TruncDiv(position[2], self.width)

\* RiskMap::get looks the risk up: it is past the early return and the
\* position it computed is a key of risks.
GetFinds(self, position) ==
    /\ ~(GetXWrap(self, position) >= self.mult
            \/ GetYWrap(self, position) >= self.mult)
    /\ <<GetX(self, position), GetY(self, position)>> \in DOMAIN self.risks

\* RiskMap::get panics in a build that checks overflow: one of
\* risk + x_wrap as usize, + y_wrap as usize, - 1 passes the range of usize.
GetOverflows(self, position) ==
    /\ GetFinds(self, position)
    /\ LET risk == self.risks[<<GetX(self, position), GetY(self, position)>>]
           one == UsizeAdd(risk, GetXWrap(self, position))
           two == UsizeAdd(one, GetYWrap(self, position))
       IN  \/ UsizeAddOverflows(risk, GetXWrap(self, position))
           \/ UsizeAddOverflows(one, GetYWrap(self, position))
           \/ UsizeSubOneOverflows(two)

\* RiskMap::get, as it returns: None or <<risk>>
RiskMapGet(self, position) ==
    IF ~GetFinds(self, position) THEN None
    ELSE LET risk == self.risks[<<GetX(self, position), GetY(self, position)>>]
             sum == UsizeAdd(UsizeAdd(risk, GetXWrap(self, position)),
                             GetYWrap(self, position))
         IN  <<UsizeRem9(UsizeSubOne(sum)) + 1>>

\* Candidate::new
RiskCandidate(position, target, total_risk) ==
    [position |-> position, total_risk |-> total_risk,
     min_remaining |-> distance_to(position, target)]

\* Ord for Candidate compares total_risk + min_remaining, reversed: the heap
\* pops a candidate of the least sum, whichever of them.
RiskKey(c) == c.total_risk + c.min_remaining
RiskPopChoices(heap) ==
    {c \in BagToSet(heap) : \A d \in BagToSet(heap) : RiskKey(c) <= RiskKey(d)}

\* The adjacent positions find_lowest_total_risk calls get on
Looked(self, visited, position) ==
    {k \in 1 .. 4 : adjacent(position)[k] \notin visited}

\* for adjacent in candidate.position.adjacent(): the candidates pushed
RECURSIVE RiskPush(_, _, _, _, _, _)
RiskPush(heap, self, visited, candidate, target, k) ==
    IF k > 4 THEN heap
    ELSE LET a == adjacent(candidate.position)[k]
             got == RiskMapGet(self, a)
         IN  RiskPush(IF a \notin visited /\ got # None
                      THEN heap (+) SetToBag({RiskCandidate(
                                a, target, candidate.total_risk + got[1])})
                      ELSE heap,
                      self, visited, candidate, target, k + 1)

\* The positions visited in one call are followed up to this many.
MaxVisited == (MaxSide * MaxMult) * (MaxSide * MaxMult)

\* parse_risk_map made the map, with_mult repeated it
CavernMade(self, build) ==
    [pc |-> "made", map |-> self, build |-> build, looked |-> None]

CavernMaps ==
    UNION {UNION {{with_mult(RiskMapNew(r, w, ht), mult) :
                        r \in [(0 .. w - 1) \X (0 .. ht - 1) -> RiskLevels]} :
                  mult \in 1 .. MaxMult} :
           w \in 1 .. MaxSide, ht \in 1 .. MaxSide}

CavernInit ==
    /\ NoSearch
    /\ burrow = NotStarted
    /\ homework = NotStarted
    /\ seafloor = NotStarted
    /\ torus = NotStarted
    /\ \E self \in CavernMaps, build \in Builds :
            cavern = CavernMade(self, build)

\* risks.get(&position), on a position inside or about the map
CavernGet ==
    /\ cavern.pc = "made"
    /\ \E x, y \in -(MaxSide + 1) .. MaxSide * MaxMult :
        cavern' = [cavern EXCEPT !.looked =
            [position |-> <<x, y>>,
             panicked |-> cavern.build = "debug"
                            /\ GetOverflows(cavern.map, <<x, y>>),
             value |-> RiskMapGet(cavern.map, <<x, y>>)]]
    /\ UNCHANGED <<graph, plain, second, tracked, burrow, homework,
                   seafloor, torus>>

\* find_lowest_total_risk(&risks, risks.top_left(), end): entry, with the
\* end main passes or the position past the right of the first row.
CavernFind ==
    /\ cavern.pc = "made"
    /\ \E end \in {bottom_right(cavern.map),
                   <<cavern.map.mult * cavern.map.width, 0>>} :
        cavern' = [pc |-> "find", map |-> cavern.map, build |-> cavern.build,
                   looked |-> None,
                   start |-> top_left(cavern.map), end |-> end,
                   candidates |-> SetToBag({RiskCandidate(
                                        top_left(cavern.map), end, 0)}),
                   visited |-> {}, result |-> None]
    /\ UNCHANGED <<graph, plain, second, tracked, burrow, homework,
                   seafloor, torus>>

\* while let Some(candidate) = candidates.pop(): the heap is empty, None
CavernExhausted ==
    /\ cavern.pc = "find"
    /\ cavern.candidates = EmptyBag
    /\ cavern' = [cavern EXCEPT !.pc = "returned", !.result = None]
    /\ UNCHANGED <<graph, plain, second, tracked, burrow, homework,
                   seafloor, torus>>

\* candidate.position == end: return Some(candidate.total_risk)
CavernArrived ==
    /\ cavern.pc = "find"
    /\ \E c \in RiskPopChoices(cavern.candidates) :
        /\ c.position = cavern.end
        /\ cavern' = [cavern EXCEPT !.pc = "returned",
                                    !.candidates = @ (-) SetToBag({c}),
                                    !.result = <<c.total_risk>>]
    /\ UNCHANGED <<graph, plain, second, tracked, burrow, homework,
                   seafloor, torus>>

\* the position popped was visited: the turn does nothing
CavernStale ==
    /\ cavern.pc = "find"
    /\ \E c \in RiskPopChoices(cavern.candidates) :
        /\ c.position # cavern.end
        /\ c.position \in cavern.visited
        /\ cavern' = [cavern EXCEPT !.candidates = @ (-) SetToBag({c})]
    /\ UNCHANGED <<graph, plain, second, tracked, burrow, homework,
                   seafloor, torus>>

\* the position popped is visited now and its adjacent positions pushed
CavernExpand ==
    /\ cavern.pc = "find"
    /\ Cardinality(cavern.visited) < MaxVisited
    /\ \E c \in RiskPopChoices(cavern.candidates) :
        /\ c.position # cavern.end
        /\ c.position \notin cavern.visited
        /\ LET visited == cavern.visited \cup {c.position}
               rest == cavern.candidates (-) SetToBag({c})
           IN  IF /\ cavern.build = "debug"
                  /\ \E k \in Looked(cavern.map, visited, c.position) :
                        GetOverflows(cavern.map, adjacent(c.position)[k])
               THEN cavern' = [cavern EXCEPT !.pc = "panicked",
                                             !.candidates = rest,
                                             !.visited = visited]
               ELSE cavern' = [cavern EXCEPT
                        !.candidates = RiskPush(rest, cavern.map, visited,
                                                c, cavern.end, 1),
                        !.visited = visited]
    /\ UNCHANGED <<graph, plain, second, tracked, burrow, homework,
                   seafloor, torus>>

CavernNext ==
    \/ CavernGet
    \/ CavernFind
    \/ CavernExhausted
    \/ CavernArrived
    \/ CavernStale
    \/ CavernExpand

CavernSpec == CavernInit /\ [][CavernNext]_vars

\* The rectangle of the repeated map and the risk of its cells: the risk of
\* the cell of the map read, raised by one per repetition each way, 9
\* followed by 1.
InRectangle(self, position) ==
    /\ 0 <= position[1] /\ position[1] < self.mult * self.width
    /\ 0 <= position[2] /\ position[2] < self.mult * self.height
TiledRisk(self, position) ==
    ((self.risks[<<position[1] % self.width, position[2] % self.height>>]
        + (position[1] \div self.width) + (position[2] \div self.height) - 1)
            % 9) + 1

\* C24: Tiled risk lookup.  get on a position of the rectangle of mult by
\* mult repetitions of the map returns the risk of the cell of the map,
\* raised by the repetitions and wrapped from 9 to 1, and on every other
\* position, the negative ones too, it returns None.
TiledLookup ==
    (cavern.pc = "made" /\ cavern.looked # None) =>
        /\ ~cavern.looked.panicked
        /\ cavern.looked.value =
            IF InRectangle(cavern.map, cavern.looked.position)
            THEN <<TiledRisk(cavern.map, cavern.looked.position)>>
            ELSE None

\* The same, of maps as wide as high and of the positions the search asks
\* for on them: those of the rectangle and the ones next to it.
TiledLookupOfSquares ==
    (/\ cavern.pc = "made" /\ cavern.looked # None
     /\ cavern.map.width = cavern.map.height
     /\ cavern.map.width > 1
     /\ cavern.looked.position[1] >= -1
     /\ cavern.looked.position[2] >= -1) => TiledLookup

\* The cells of the rectangle, and the lowest total risks from start, as
\* pairs <<cell, total>>: one more round of relaxation of reached, and k
\* rounds of it.
Cells(self) ==
    (0 .. self.mult * self.width - 1) \X (0 .. self.mult * self.height - 1)
RelaxOnce(self, reached) ==
    LET entered == {<<adjacent(p[1])[i],
                      p[2] + TiledRisk(self, adjacent(p[1])[i])>> :
                        p \in reached, i \in 1 .. 4}
        all == reached \cup {q \in entered : q[1] \in Cells(self)}
    IN  {q \in all : \A r \in all : r[1] = q[1] => q[2] <= r[2]}
RECURSIVE Relaxed(_, _, _)
Relaxed(self, reached, k) ==
    IF k = 0 THEN reached ELSE Relaxed(self, RelaxOnce(self, reached), k - 1)
LowestTotal(self, start, end) ==
    IF start \notin Cells(self) THEN None
    ELSE LET reached == Relaxed(self, {<<start, 0>>}, Cardinality(Cells(self)))
         IN  IF \E q \in reached : q[1] = end
             THEN <<(CHOOSE q \in reached : q[1] = end)[2]>>
             ELSE None

\* C23: Risk-grid shortest path.  find_lowest_total_risk returns, and what
\* it returns is the least sum of the risks of the cells entered over the
\* paths from start to end inside the grid, None when there is none.
LowestTotalRisk ==
    /\ cavern.pc # "panicked"
    /\ cavern.pc = "returned" =>
            cavern.result = LowestTotal(cavern.map, cavern.start, cavern.end)

\* The same, of maps as wide as high with more than one column.
LowestTotalRiskOfSquares ==
    (cavern.pc \in {"returned", "panicked"}
        /\ cavern.map.width = cavern.map.height
        /\ cavern.map.width > 1) => LowestTotalRisk

\* ------------------------------------------------- position.rs: TorusMap
\* Position::step
step(self, direction) ==
    CASE direction = "North" -> <<self[1], self[2] - 1>>
      [] direction = "East" -> <<self[1] + 1, self[2]>>
      [] direction = "South" -> <<self[1], self[2] + 1>>
      [] direction = "West" -> <<self[1] - 1, self[2]>>

Directions == {"North", "East", "South", "West"}

\* TorusMap::new: the map is kept as given
TorusMapNew(map, width, height) ==
    [map |-> map, width |-> width, height |-> height]

\* TorusMap::wrap: % of i64, which keeps the sign of the coordinate
wrap(self, position) ==
    <<TruncRem(position[1], self.width), TruncRem(position[2], self.height)>>

\* TorusMap::get: None or <<contents>>
TorusMapGet(self, position) ==
    IF wrap(self, position) \in DOMAIN self.map
    THEN <<self.map[wrap(self, position)]>> ELSE None

\* contains_key, were it to look the position up as it is given
contains_key_unwrapped(self, position) == position \in DOMAIN self.map

\* TorusMap::contains_key
contains_key(self, position) == wrap(self, position) \in DOMAIN self.map

\* TorusMap::insert: the map after it (it returns what get gave before)
TorusMapInsert(self, position, contents) ==
    [self EXCEPT !.map =
        [k \in DOMAIN self.map \cup {wrap(self, position)} |->
            IF k = wrap(self, position) THEN contents ELSE self.map[k]]]

\* TorusMap::remove: the map after it (it returns what get gave before)
TorusMapRemove(self, position) ==
    [self EXCEPT !.map =
        [k \in DOMAIN self.map \ {wrap(self, position)} |-> self.map[k]]]

\* TorusMap::make_moves on the moves in the order given
RECURSIVE make_moves(_, _)
make_moves(self, moves) ==
    IF moves = <<>> THEN self
    ELSE LET from == moves[1][1]
             to == moves[1][2]
             contents == TorusMapGet(self, from)
         IN  make_moves(IF contents # None
                        THEN TorusMapInsert(TorusMapRemove(self, from),
                                            to, contents[1])
                        ELSE self,
                        Tail(moves))

\* What the cells hold
Contents == {"South"}

\* The cells of a map of width by height
Rectangle(width, height) == (0 .. width - 1) \X (0 .. height - 1)

\* A TorusMap was made of cells of its rectangle; no call yet.
TorusInit ==
    /\ NoSearch
    /\ burrow = NotStarted
    /\ homework = NotStarted
    /\ cavern = NotStarted
    /\ seafloor = NotStarted
    /\ \E width, height \in 1 .. MaxSide :
        \E cells \in SUBSET Rectangle(width, height) :
            \E map \in [cells -> Contents] :
                torus = [pc |-> "made", last |-> None,
                         t |-> TorusMapNew(map, width, height)]

\* The positions the calls are made on: the cells of the rectangle and the
\* positions one step from them.
Stepped(self) ==
    Rectangle(self.width, self.height)
        \cup {step(c, d) : c \in Rectangle(self.width, self.height),
                           d \in Directions}

\* The bool a call returned, as the record of the call keeps it
BoolReturned(b) == IF b THEN <<"true">> ELSE <<"false">>

\* map.get(&position)
TorusGet ==
    /\ torus.pc = "made"
    /\ \E position \in Stepped(torus.t) :
        torus' = [torus EXCEPT !.last =
            [op |-> "get", position |-> position, contents |-> None,
             result |-> TorusMapGet(torus.t, position)]]
    /\ UNCHANGED <<graph, plain, second, tracked, burrow, homework,
                   cavern, seafloor>>

\* map.contains_key(&position)
TorusContainsKey ==
    /\ torus.pc = "made"
    /\ \E position \in Stepped(torus.t) :
        torus' = [torus EXCEPT !.last =
            [op |-> "contains_key", position |-> position, contents |-> None,
             result |-> BoolReturned(contains_key(torus.t, position))]]
    /\ UNCHANGED <<graph, plain, second, tracked, burrow, homework,
                   cavern, seafloor>>

\* map.insert(position, contents)
TorusInsert ==
    /\ torus.pc = "made"
    /\ \E position \in Stepped(torus.t), contents \in Contents :
        torus' = [torus EXCEPT
            !.t = TorusMapInsert(@, position, contents),
            !.last = [op |-> "insert", position |-> position,
                      contents |-> <<contents>>,
                      result |-> TorusMapGet(torus.t, position)]]
    /\ UNCHANGED <<graph, plain, second, tracked, burrow, homework,
                   cavern, seafloor>>

\* map.remove(&position)
TorusRemove ==
    /\ torus.pc = "made"
    /\ \E position \in Stepped(torus.t) :
        torus' = [torus EXCEPT
            !.t = TorusMapRemove(@, position),
            !.last = [op |-> "remove", position |-> position,
                      contents |-> None,
                      result |-> TorusMapGet(torus.t, position)]]
    /\ UNCHANGED <<graph, plain, second, tracked, burrow, homework,
                   cavern, seafloor>>

TorusNext ==
    \/ TorusGet
    \/ TorusContainsKey
    \/ TorusInsert
    \/ TorusRemove

TorusSpec == TorusInit /\ [][TorusNext]_vars

\* The cell of the rectangle a position is congruent to
CellOf(self, position) ==
    <<position[1] % self.width, position[2] % self.height>>

\* The call made last gave what the same call on the cell of the rectangle
\* congruent to its position would have given, and left the same map.
SameAsOnCell ==
    LET last == torus'.last
        cell == CellOf(torus.t, last.position)
    IN  /\ last.result =
            IF last.op = "contains_key"
            THEN BoolReturned(contains_key(torus.t, cell))
            ELSE TorusMapGet(torus.t, cell)
        /\ torus'.t =
            CASE last.op = "insert" ->
                    TorusMapInsert(torus.t, cell, last.contents[1])
              [] last.op = "remove" -> TorusMapRemove(torus.t, cell)
              [] OTHER -> torus.t

\* C28: Torus addressing.  get, insert, remove and contains_key on a
\* position address the cell of the rectangle congruent to it, for negative
\* coordinates too: a step West from x = 0 addresses x = width - 1, a step
\* North from y = 0 addresses y = height - 1; and every key of the map is
\* a cell of the rectangle.
TorusAddressing ==
    /\ [](torus.pc = "made" =>
            DOMAIN torus.t.map
                \subseteq Rectangle(torus.t.width, torus.t.height))
    /\ [][(torus.pc = "made" /\ torus' # torus) => SameAsOnCell]_vars

\* The same, of the positions with no negative coordinate.
TorusAddressingEastAndSouth ==
    [][(torus.pc = "made" /\ torus' # torus
            /\ torus'.last.position[1] >= 0
            /\ torus'.last.position[2] >= 0
            /\ DOMAIN torus.t.map
                    \subseteq Rectangle(torus.t.width, torus.t.height))
        => /\ SameAsOnCell
           /\ DOMAIN torus'.t.map
                    \subseteq Rectangle(torus.t.width, torus.t.height)]_vars

\* ------------------------------------- day25 and day25_2: the sea floor
\* The sides of the sea floors read are at most this many cells, and their
\* cells at most this many.
MaxFloor == 3
MaxFloorCells == 6

\* The steps of move_until_gridlock followed are at most this many.
MaxSteps == 8

\* The characters of the sea floors read
FloorChars == {">", "v", "."}

\* The sea floors read: the rows of the file, each a sequence of characters
Floors ==
    UNION {[1 .. size[2] -> [1 .. size[1] -> FloorChars]] :
            size \in {s \in (1 .. MaxFloor) \X (1 .. MaxFloor) :
                        s[1] * s[2] <= MaxFloorCells}}

\* Direction::try_from(char): None or <<direction>>
TryFromChar(value) ==
    CASE value = "^" -> <<"North">>
      [] value = ">" -> <<"East">>
      [] value = "v" -> <<"South">>
      [] value = "<" -> <<"West">>
      [] OTHER -> None

\* char::from(Direction)
CharFrom(direction) ==
    CASE direction = "North" -> "^"
      [] direction = "East" -> ">"
      [] direction = "South" -> "v"
      [] direction = "West" -> "<"

\* read_map of day25: the characters that are directions, by position
ReadTorus(rows) ==
    LET keys == {c \in Rectangle(Len(rows[1]), Len(rows)) :
                    TryFromChar(rows[c[2] + 1][c[1] + 1]) # None}
    IN  TorusMapNew([c \in keys |-> TryFromChar(rows[c[2] + 1][c[1] + 1])[1]],
                    Len(rows[1]), Len(rows))

\* print_map of day25: the map as rows of characters
TorusRows(map) ==
    [y \in 1 .. map.height |-> [x \in 1 .. map.width |->
        IF TorusMapGet(map, <<x - 1, y - 1>>) # None
        THEN CharFrom(TorusMapGet(map, <<x - 1, y - 1>>)[1]) ELSE "."]]

\* move_cucumbers of day25: the moves it collects
TorusMoves(map, move_in) ==
    {<<position, step(position, move_in)>> :
        position \in {k \in DOMAIN map.map :
                        /\ map.map[k] = move_in
                        /\ ~contains_key(map, step(k, move_in))}}

\* The orders map.iter() can give the moves in
Orders(moves) ==
    {order \in [1 .. Cardinality(moves) -> moves] :
        \A i, j \in 1 .. Cardinality(moves) : order[i] = order[j] => i = j}

\* get and set of day25_2
GridGet(map, at) == map[at[2] + 1][at[1] + 1]
GridSet(map, at, c) == [map EXCEPT ![at[2] + 1][at[1] + 1] = c]

\* move_cucumbers of day25_2: potential_moves, in their order
potential_moves(map, direction) ==
    LET width == Len(map[1])
        height == Len(map)
    IN  IF direction = ">"
        THEN [i \in 1 .. width * height |->
                LET x == (i - 1) % width
                    y == (i - 1) \div width
                IN  <<<<x, y>>, <<(x + 1) % width, y>>>>]
        ELSE [i \in 1 .. width * height |->
                LET x == (i - 1) \div height
                    y == (i - 1) % height
                IN  <<<<x, y>>, <<x, (y + 1) % height>>>>]

\* move_cucumbers of day25_2: moves
GridMoves(map, direction) ==
    SelectSeq(potential_moves(map, direction),
              LAMBDA mv : /\ GridGet(map, mv[1]) = direction
                          /\ GridGet(map, mv[2]) = ".")

\* move_cucumbers of day25_2: for (from, to) in moves
RECURSIVE GridApply(_, _, _)
GridApply(map, moves, direction) ==
    IF moves = <<>> THEN map
    ELSE GridApply(GridSet(GridSet(map, moves[1][1], "."),
                           moves[1][2], direction),
                   Tail(moves), direction)

\* move_until_gridlock entered, in either binary
Entered(map) ==
    [pc |-> "east", step |-> 1, updated |-> FALSE, map |-> map,
     result |-> None]

SeafloorInit ==
    /\ NoSearch
    /\ burrow = NotStarted
    /\ homework = NotStarted
    /\ cavern = NotStarted
    /\ torus = NotStarted
    /\ \E rows \in Floors :
        seafloor = [pc |-> "run", input |-> rows,
                    day25 |-> Entered(ReadTorus(rows)),
                    day25_2 |-> Entered(rows)]

\* One phase of day25 on its map, the moves in the order given
TorusPhase(run, move_in, order, next) ==
    [run EXCEPT !.pc = next,
                !.updated = @ \/ order # <<>>,
                !.map = make_moves(@, order)]

\* One phase of day25_2 on its rows
GridPhase(run, direction, next) ==
    [run EXCEPT !.pc = next,
                !.updated = @ \/ GridMoves(run.map, direction) # <<>>,
                !.map = GridApply(@, GridMoves(run.map, direction),
                                  direction)]

\* updated |= move_cucumbers(&mut map, Direction::East), and on '>'
SeafloorEast ==
    /\ seafloor.pc = "run"
    /\ seafloor.day25.pc = "east" \/ seafloor.day25_2.pc = "east"
    /\ \E order \in Orders(TorusMoves(seafloor.day25.map, "East")) :
        seafloor' = [seafloor EXCEPT
            !.day25 = IF @.pc = "east"
                      THEN TorusPhase(@, "East", order, "south") ELSE @,
            !.day25_2 = IF @.pc = "east"
                        THEN GridPhase(@, ">", "south") ELSE @]
    /\ UNCHANGED <<graph, plain, second, tracked, burrow, homework,
                   cavern, torus>>

\* updated |= move_cucumbers(&mut map, Direction::South), and on 'v'
SeafloorSouth ==
    /\ seafloor.pc = "run"
    /\ seafloor.day25.pc = "south" \/ seafloor.day25_2.pc = "south"
    /\ \E order \in Orders(TorusMoves(seafloor.day25.map, "South")) :
        seafloor' = [seafloor EXCEPT
            !.day25 = IF @.pc = "south"
                      THEN TorusPhase(@, "South", order, "check") ELSE @,
            !.day25_2 = IF @.pc = "south"
                        THEN GridPhase(@, "v", "check") ELSE @]
    /\ UNCHANGED <<graph, plain, second, tracked, burrow, homework,
                   cavern, torus>>

\* if !updated { return step }, else the next step of for step in 1..
Checked(run) ==
    IF run.pc # "check" THEN run
    ELSE IF ~run.updated
    THEN [run EXCEPT !.pc = "returned", !.result = <<run.step>>]
    ELSE [run EXCEPT !.pc = "east", !.step = @ + 1, !.updated = FALSE]

SeafloorCheck ==
    /\ seafloor.pc = "run"
    /\ seafloor.day25.pc = "check" \/ seafloor.day25_2.pc = "check"
    /\ seafloor.day25.step < MaxSteps
    /\ seafloor.day25_2.step < MaxSteps
    /\ seafloor' = [seafloor EXCEPT !.day25 = Checked(@),
                                    !.day25_2 = Checked(@)]
    /\ UNCHANGED <<graph, plain, second, tracked, burrow, homework,
                   cavern, torus>>

SeafloorNext ==
    \/ SeafloorEast
    \/ SeafloorSouth
    \/ SeafloorCheck

SeafloorSpec == SeafloorInit /\ [][SeafloorNext]_vars

\* The cell a cucumber of a kind at <<x, y>> (from 1) moves to, and the cell
\* one moves from to come there, around the edges.
Ahead(rows, kind, x, y) ==
    IF kind = ">" THEN <<(x % Len(rows[1])) + 1, y>>
    ELSE <<x, (y % Len(rows)) + 1>>
Behind(rows, kind, x, y) ==
    IF kind = ">" THEN <<((x + Len(rows[1]) - 2) % Len(rows[1])) + 1, y>>
    ELSE <<x, ((y + Len(rows) - 2) % Len(rows)) + 1>>

\* The cucumbers of a kind free to move, and the rows after all of them
\* moved at once.
Movers(rows, kind) ==
    {c \in (1 .. Len(rows[1])) \X (1 .. Len(rows)) :
        /\ rows[c[2]][c[1]] = kind
        /\ LET a == Ahead(rows, kind, c[1], c[2])
           IN  rows[a[2]][a[1]] = "."}
RECURSIVE CellsAfter(_, _, _, _)
CellsAfter(rows, kind, y, x) ==
    IF x = 0 THEN <<>>
    ELSE Append(CellsAfter(rows, kind, y, x - 1),
                IF <<x, y>> \in Movers(rows, kind) THEN "."
                ELSE IF Behind(rows, kind, x, y) \in Movers(rows, kind)
                THEN kind
                ELSE rows[y][x])
RECURSIVE RowsAfter(_, _, _)
RowsAfter(rows, kind, y) ==
    IF y = 0 THEN <<>>
    ELSE Append(RowsAfter(rows, kind, y - 1),
                CellsAfter(rows, kind, y, Len(rows[1])))
Simultaneous(rows, kind) == RowsAfter(rows, kind, Len(rows))

\* The number of the first step, from step k on rows, in which no
\* cucumber moves; 0 when there is none up to MaxSteps.
RECURSIVE FirstGridlock(_, _)
FirstGridlock(rows, k) ==
    LET east == Simultaneous(rows, ">")
    IN  IF Movers(rows, ">") = {} /\ Movers(east, "v") = {} THEN k
        ELSE IF k >= MaxSteps THEN 0
        ELSE FirstGridlock(Simultaneous(east, "v"), k + 1)

\* How many cucumbers of a kind the rows hold
HowManyOf(rows, kind) ==
    Cardinality({c \in (1 .. Len(rows[1])) \X (1 .. Len(rows)) :
                    rows[c[2]][c[1]] = kind})

\* The phase taken moved the herd of the kind at once, in both binaries.
AtOnce(phase, kind) ==
    (seafloor.pc = "run" /\ seafloor.day25.pc = phase
        /\ seafloor.day25_2.pc = phase /\ seafloor' # seafloor) =>
        /\ TorusRows(seafloor'.day25.map)
                = Simultaneous(TorusRows(seafloor.day25.map), kind)
        /\ seafloor'.day25_2.map = Simultaneous(seafloor.day25_2.map, kind)
        /\ seafloor'.day25.updated =
            (seafloor.day25.updated
                \/ Movers(TorusRows(seafloor.day25.map), kind) # {})
        /\ seafloor'.day25_2.updated =
            (seafloor.day25_2.updated
                \/ Movers(seafloor.day25_2.map, kind) # {})

\* C27: Sea-cucumber stepping.  In each step the east-facing herd moves at
\* once, decided on the positions before the phase, then the south-facing
\* herd, decided on the positions after the east phase, around the edges;
\* the number of cucumbers of each kind stays; move_until_gridlock returns
\* the number of the first step in which no cucumber moves, and day25 and
\* day25_2 return the same number.
SeaCucumberStepping ==
    /\ [][AtOnce("east", ">") /\ AtOnce("south", "v")]_vars
    /\ [](seafloor.pc = "run" =>
            /\ \A kind \in {">", "v"} :
                /\ HowManyOf(TorusRows(seafloor.day25.map), kind)
                        = HowManyOf(seafloor.input, kind)
                /\ HowManyOf(seafloor.day25_2.map, kind)
                        = HowManyOf(seafloor.input, kind)
            /\ Cardinality(DOMAIN seafloor.day25.map.map)
                    = HowManyOf(seafloor.input, ">")
                        + HowManyOf(seafloor.input, "v")
            /\ seafloor.day25.pc = seafloor.day25_2.pc
            /\ seafloor.day25.pc = "returned" =>
                /\ seafloor.day25.result
                        = <<FirstGridlock(seafloor.input, 1)>>
                /\ seafloor.day25_2.result = seafloor.day25.result)

\* Both returned, after three steps or more, on a sea floor three wide
\* that holds both kinds and whose first row had a cucumber on its east
\* edge, free to move around it.
SeaCucumberSteppingWitness ==
    /\ seafloor.pc = "run"
    /\ seafloor.day25.pc = "returned"
    /\ seafloor.day25_2.pc = "returned"
    /\ seafloor.day25.result[1] >= 3
    /\ Len(seafloor.input[1]) = 3
    /\ seafloor.input[1][3] = ">"
    /\ seafloor.input[1][1] = "."
    /\ HowManyOf(seafloor.input, "v") > 0

====
